---- MODULE Spec2Model ----
(***************************************************************************)
(* Read path of the R2 object worker: the two-tier read-through cache      *)
(* (Cache API, chunked Workers KV) in front of an R2 bucket.               *)
(*                                                                         *)
(* Sizes are counted in model units: the thresholds keep the order of the  *)
(* source (MAX_SINGLE_ENTRY = CHUNK_SIZE < CACHE_API_SIZE_LIMIT            *)
(* < 2 * CHUNK_SIZE < MAX_KV_CACHE_SIZE) at a scale TLC can enumerate.     *)
(* A body is a sequence of bytes; byte k of the origin object is k, so     *)
(* every slice identifies the offsets it was cut from.                     *)
(***************************************************************************)
EXTENDS Integers, Sequences, FiniteSets, TLC

\* ---------------------------------------------------------------- bounds
MaxSize == 6       \* largest origin object
MaxFrame == 3      \* largest frame one stream read() yields
MaxNum == 7        \* largest number written in a Range header
MaxTime == 2       \* clock ticks
MaxReq == 2        \* requests of one behaviour
MaxRetries == 3    \* largest STORAGE.maxRetries
MaxDelay == 2      \* largest STORAGE.retryDelay
MaxRoutes == 2     \* longest BUCKET_ROUTING.routes

\* ------------------------------------------------------- program constants
MAX_SINGLE_ENTRY == 2
CHUNK_SIZE == 2
MAX_KV_CACHE_SIZE == 5
CACHE_API_SIZE_LIMIT == 3
MaxAge == 1        \* max-age of the cache policy, in clock ticks

\* ---------------------------------------------------------------- helpers
Min(a, b) == IF a < b THEN a ELSE b
Max(a, b) == IF a > b THEN a ELSE b

None == <<>>
Some(x) == <<x>>
IsSome(o) == o # <<>>
Get(o) == o[1]

RECURSIVE SumSeq(_)
SumSeq(s) == IF s = <<>> THEN 0 ELSE Head(s) + SumSeq(Tail(s))

RECURSIVE Pow2(_)
Pow2(n) == IF n = 0 THEN 1 ELSE 2 * Pow2(n - 1)

\* The origin object of size T.
Body(T) == [k \in 1..T |-> k]

\* ArrayBuffer.prototype.slice(begin, end): a negative index counts from the
\* end, both are clamped to [0, len].
RelIdx(i, len) == IF i < 0 THEN Max(len + i, 0) ELSE Min(i, len)
Slice(buf, begin, end) ==
    LET f == RelIdx(begin, Len(buf))
        l == RelIdx(end, Len(buf))
    IN IF l > f THEN SubSeq(buf, f + 1, l) ELSE <<>>

\* ------------------------------------------------------------ Range header
\* A Range header value, by what /^bytes=(\d*)-(\d*)$/ makes of it: absent,
\* not matching (another unit, a multi-range), or the two digit runs, each
\* possibly empty.
Hdr(present, m, hasS, s, hasE, e) ==
    [present |-> present, m |-> m, hasS |-> hasS, s |-> s, hasE |-> hasE, e |-> e]
NoRange == Hdr(FALSE, FALSE, FALSE, 0, FALSE, 0)
BadRange == Hdr(TRUE, FALSE, FALSE, 0, FALSE, 0)
FromTo(a, b) == Hdr(TRUE, TRUE, TRUE, a, TRUE, b)
From(a) == Hdr(TRUE, TRUE, TRUE, a, FALSE, 0)
Suffix(n) == Hdr(TRUE, TRUE, FALSE, 0, TRUE, n)
Dash == Hdr(TRUE, TRUE, FALSE, 0, FALSE, 0)
RangeHeaders ==
    {NoRange, BadRange, Dash}
    \cup {FromTo(a, b) : a \in 0..MaxNum, b \in 0..MaxNum}
    \cup {From(a) : a \in 0..MaxNum}
    \cup {Suffix(n) : n \in 0..MaxNum}

\* The result of parseRange: null, or {start, end}; start is NaN when
\* parseInt read the empty string.
Rng(ok, nan, start, end) == [ok |-> ok, nan |-> nan, start |-> start, end |-> end]
Null == Rng(FALSE, FALSE, 0, 0)

M_parseRange(header, total) == Null
parseRange(header, total) ==
    IF ~header.m THEN Null
    ELSE IF ~header.hasS /\ header.hasE
         THEN Rng(TRUE, FALSE, total - header.e, total - 1)
    ELSE LET nan == ~header.hasS
             start == header.s
             end == IF header.hasE THEN header.e ELSE total - 1
         IN IF ~nan /\ (start > end \/ start >= total) THEN Null
            ELSE Rng(TRUE, nan, IF nan THEN 0 ELSE start, Min(end, total - 1))

\* ---------------------------------------------------------------- state
VARIABLES
    originSize,   \* size of the object the bucket holds under the key
    kvAvail,      \* whether the CDN_CACHE namespace is bound (kvCache)
    now,          \* Date.now(), in clock ticks
    fast,         \* Cache API entry of the URL: None or Some(response)
    kvBase,       \* KV value + metadata at `{cacheKey}`
    kvBody,       \* KV value at `{cacheKey}_body`
    kvChunk,      \* KV values at `{cacheKey}_chunk_i`
    kvPending,    \* kv.put() calls issued and not yet resolved
    cur,          \* number of requests that have arrived
    req,          \* the request being handled: inputs, position, response
    task,         \* per request, the work it registered (waitUntil) or called
    putLog,       \* history: every response handed to a cache write
    served,       \* history: bodies of the complete 200s plain GETs received
    r2,           \* the storage config and the r2Get call of the request
    front,        \* the step before or after getObject: inputs and result
    pump          \* the dual-sink pump of getObjectViaR2, frame by frame

vars == <<originSize, kvAvail, now, fast, kvBase, kvBody, kvChunk, kvPending,
          cur, req, task, putLog, served, r2, front, pump>>
env == <<originSize, kvAvail, r2, front, pump>>
kvStore == <<kvBase, kvBody, kvChunk>>

ReqIds == 1..MaxReq
ChunkIds == 0..MaxSize

\* The httpEtag of the origin object.
ETag == "etag"

\* ------------------------------------------------------------ KV records
\* The record at the base key: KVCacheMetadata plus the JSON value, which is
\* {singleEntry: true} or a ChunkManifest.
BaseRec(contentLength, isChunked, createdAt, single, chunkCount, chunkSizes) ==
    [contentLength |-> contentLength, isChunked |-> isChunked,
     createdAt |-> createdAt, maxAge |-> MaxAge, etag |-> ETag, single |-> single,
     totalSize |-> IF single THEN 0 ELSE contentLength,
     chunkCount |-> chunkCount, chunkSizes |-> chunkSizes]
NoBase == BaseRec(0, FALSE, 0, TRUE, 0, <<>>)

\* One kv.put(key, value, ...) of writer w.
BasePut(w, base) == [w |-> w, key |-> "base", idx |-> 0, bytes |-> <<>>, base |-> base]
BodyPut(w, bytes) == [w |-> w, key |-> "body", idx |-> 0, bytes |-> bytes, base |-> NoBase]
ChunkPut(w, idx, bytes) == [w |-> w, key |-> "chunk", idx |-> idx, bytes |-> bytes, base |-> NoBase]

\* ------------------------------------------------------------ kvCachePut
\* The puts kvCachePut issues for a buffered body (all at once, awaited
\* together).
kvCachePutPuts(w, body, createdAt) ==
    LET size == Len(body)
        isChunked == size > MAX_SINGLE_ENTRY
    IN IF size > MAX_KV_CACHE_SIZE THEN {}
       ELSE IF ~isChunked
       THEN {BasePut(w, BaseRec(size, FALSE, createdAt, TRUE, 0, <<>>)), BodyPut(w, body)}
       ELSE LET chunkCount == (size + CHUNK_SIZE - 1) \div CHUNK_SIZE
                start(i) == i * CHUNK_SIZE
                end(i) == Min(start(i) + CHUNK_SIZE, size)
                chunkSizes == [k \in 1..chunkCount |-> Len(Slice(body, start(k - 1), end(k - 1)))]
            IN {ChunkPut(w, i, Slice(body, start(i), end(i))) : i \in 0..(chunkCount - 1)}
               \cup {BasePut(w, BaseRec(size, TRUE, createdAt, FALSE, chunkCount, chunkSizes))}

\* -------------------------------------------------------- kvCachePutStream
\* The chunk accumulator of kvCachePutStream; chunkFill is Len(chunkBuf).
Acc(chunkIndex, chunkBuf, chunkSizes, puts) ==
    [chunkIndex |-> chunkIndex, chunkBuf |-> chunkBuf, chunkSizes |-> chunkSizes, puts |-> puts]

\* One pass of the inner loop: copy what fits, upload the chunk when full.
M_CopyStep(w, st, value, srcOffset) ==
    LET space == CHUNK_SIZE - Len(st.chunkBuf)
        toCopy == Min(space, Len(value) - srcOffset)
        buf == st.chunkBuf \o SubSeq(value, srcOffset + 1, srcOffset + toCopy)
    IN IF Len(buf) = CHUNK_SIZE
       THEN Acc(st.chunkIndex + 1, <<>>, st.chunkSizes,
                st.puts \cup {ChunkPut(w, st.chunkIndex, buf)})
       ELSE Acc(st.chunkIndex, buf, st.chunkSizes, st.puts)
CopyStep(w, st, value, srcOffset) ==
    LET space == CHUNK_SIZE - Len(st.chunkBuf)
        toCopy == Min(space, Len(value) - srcOffset)
        buf == st.chunkBuf \o SubSeq(value, srcOffset + 1, srcOffset + toCopy)
    IN IF Len(buf) = CHUNK_SIZE
       THEN Acc(st.chunkIndex + 1, <<>>, Append(st.chunkSizes, Len(buf)),
                st.puts \cup {ChunkPut(w, st.chunkIndex, buf)})
       ELSE Acc(st.chunkIndex, buf, st.chunkSizes, st.puts)

\* The inner loop over one frame, which may cross several chunk boundaries.
M_CopyFrame(w, st, value, srcOffset) ==
    IF srcOffset >= Len(value) THEN st ELSE CopyStep(w, st, value, srcOffset)
RECURSIVE CopyFrame(_, _, _, _)
CopyFrame(w, st, value, srcOffset) ==
    IF srcOffset >= Len(value) THEN st
    ELSE CopyFrame(w, CopyStep(w, st, value, srcOffset), value,
                   srcOffset + Min(CHUNK_SIZE - Len(st.chunkBuf), Len(value) - srcOffset))

\* After the stream ended: the final short chunk, then the manifest.
M_FlushPuts(w, st, totalSize, createdAt) ==
    {BasePut(w, BaseRec(totalSize, TRUE, createdAt, FALSE, st.chunkIndex, st.chunkSizes))}
FlushPuts(w, st, totalSize, createdAt) ==
    LET fl == IF Len(st.chunkBuf) > 0
              THEN Acc(st.chunkIndex + 1, <<>>, Append(st.chunkSizes, Len(st.chunkBuf)),
                       {ChunkPut(w, st.chunkIndex, st.chunkBuf)})
              ELSE Acc(st.chunkIndex, <<>>, st.chunkSizes, {})
    IN fl.puts \cup {BasePut(w, BaseRec(totalSize, TRUE, createdAt, FALSE, fl.chunkIndex, fl.chunkSizes))}

SinglePuts(w, buf, totalSize, createdAt) ==
    {BasePut(w, BaseRec(totalSize, FALSE, createdAt, TRUE, 0, <<>>)), BodyPut(w, buf)}

\* A task: what a request registered with ctx.waitUntil, or a direct call.
\* fail names what failed in it ("" for nothing); client and cache are the
\* states of the two sinks of a pump ("" when the task has none); onto tells
\* that a write began on a key that held a complete entry.
Task(kind, pc, totalSize, createdAt, stream, hdr) ==
    [kind |-> kind, pc |-> pc, totalSize |-> totalSize, createdAt |-> createdAt,
     stream |-> stream, hdr |-> hdr, fail |-> "", client |-> "", cache |-> "",
     onto |-> FALSE]
NoAcc == Acc(0, <<>>, <<>>, {})
NoTask == Task("none", "done", 0, 0, <<>>, NoRange)

\* kvCachePutStream entered: the size guard and the metadata.
M_StartStream(body, totalSize) == Task("kvStream", "read", totalSize, now, body, NoRange)
StartStream(body, totalSize) ==
    IF totalSize > MAX_KV_CACHE_SIZE
    THEN Task("kvStream", "done", totalSize, now, body, NoRange)
    ELSE Task("kvStream", "read", totalSize, now, body, NoRange)

\* The ways a body of n bytes arrives as frames of reader.read().
RECURSIVE Frames(_)
Frames(n) ==
    IF n = 0 THEN {<<>>}
    ELSE UNION {{<<f>> \o s : s \in Frames(n - f)} : f \in 1..Min(MaxFrame, n)}

\* The read loop over the frames fs of the stream from position pos on.
RECURSIVE ReadLoop(_, _, _, _, _)
ReadLoop(w, st, stream, pos, fs) ==
    IF fs = <<>> THEN st
    ELSE ReadLoop(w, CopyFrame(w, st, SubSeq(stream, pos + 1, pos + Head(fs)), 0),
                  stream, pos + Head(fs), Tail(fs))

\* Every put kvCachePutStream issues for a stream arriving as the frames fs:
\* the chunked path uploads chunks as they fill, the single path collects
\* the whole body; neither waits for a put before the last one is issued.
StreamPuts(w, t, fs) ==
    IF t.totalSize > MAX_SINGLE_ENTRY
    THEN LET st == ReadLoop(w, NoAcc, t.stream, 0, fs)
         IN st.puts \cup FlushPuts(w, st, t.totalSize, t.createdAt)
    ELSE SinglePuts(w, t.stream, t.totalSize, t.createdAt)

\* kvCachePutStream from the first reader.read() to `await
\* Promise.all(pendingPuts)`: the puts are in flight.
PutStream(t) ==
    /\ task[t].kind = "kvStream" /\ task[t].pc = "read"
    /\ \E fs \in Frames(Len(task[t].stream)) :
        kvPending' = kvPending \cup StreamPuts(t, task[t], fs)
    /\ task' = [task EXCEPT ![t].pc = "await"]
    /\ UNCHANGED <<env, now, fast, kvStore, cur, req, putLog, served>>

\* One kv.put() resolves: the value becomes visible under its key.
KvPutApply ==
    \E p \in kvPending :
        /\ kvPending' = kvPending \ {p}
        /\ kvBase' = IF p.key = "base" THEN Some(p.base) ELSE kvBase
        /\ kvBody' = IF p.key = "body" THEN Some(p.bytes) ELSE kvBody
        /\ kvChunk' = IF p.key = "chunk" THEN [kvChunk EXCEPT ![p.idx] = Some(p.bytes)] ELSE kvChunk
        /\ UNCHANGED <<env, now, fast, cur, req, task, putLog, served>>

\* One kv.put() rejects: nothing is stored under its key, and the writer's
\* catch logs the error once Promise.all is awaited. The puts already
\* issued, and those still to be issued, go on.
KvPutFail ==
    \E p \in kvPending :
        /\ kvPending' = kvPending \ {p}
        /\ task' = [task EXCEPT ![p.w].fail = "kvPut"]
        /\ UNCHANGED <<env, now, fast, kvStore, cur, req, putLog, served>>

\* `await Promise.all(puts)` has resolved: the write of task t returned.
Returned(t) ==
    /\ task[t].kind \in {"kvStream", "kvPut"}
    /\ task[t].pc = "done" \/ (task[t].pc = "await" /\ \A p \in kvPending : p.w # t)

\* ------------------------------------------------------------- responses
\* Content-Range `bytes start-end/total`; start prints as NaN when it is.
CR(nan, start, end, total) == [nan |-> nan, start |-> start, end |-> end, total |-> total]

\* A Response: status, Content-Range (None when absent), Content-Length
\* (clNaN when it prints as NaN), the bytes delivered so far, the state of
\* its body stream and the tier that produced it. Status 0 stands for "no
\* response" (null).
\* It is built without an ETag header (etag = "") and without a text
\* body (text = "").
Resp(status, cr, cl, clNaN, body, state, src) ==
    [status |-> status, cr |-> cr, cl |-> cl, clNaN |-> clNaN, body |-> body,
     state |-> state, src |-> src, etag |-> "", text |-> ""]

\* headers.set('ETag', etag) on a response.
Tagged(resp, etag) == [resp EXCEPT !.etag = etag]

\* new Response(text, {status, headers: {'Content-Type': 'text/plain'}}).
M_TextResp(status, text) ==
    [Resp(200, None, 0, FALSE, <<>>, "closed", "origin") EXCEPT !.text = text]
TextResp(status, text) ==
    [Resp(status, None, 0, FALSE, <<>>, "closed", "origin") EXCEPT !.text = text]
NoResp == Resp(0, None, 0, FALSE, <<>>, "closed", "none")

\* The position of a chunked read: the IIFE's loop variables.
Rd(i, chunkOffset, bytesWritten, range, ranged, base) ==
    [i |-> i, chunkOffset |-> chunkOffset, bytesWritten |-> bytesWritten,
     range |-> range, ranged |-> ranged, base |-> base]
NoRd == Rd(0, 0, 0, Null, FALSE, NoBase)

\* buildResponse: a single-entry body, sliced when the Range parses.
buildResponse(body, header) ==
    LET range == parseRange(header, Len(body))
        slice == Slice(body, IF range.nan THEN 0 ELSE range.start, range.end + 1)
    IN IF header.present /\ range.ok
       THEN Resp(206, Some(CR(range.nan, range.start, range.end, Len(body))),
                 Len(slice), FALSE, slice, "closed", "kv")
       ELSE Resp(200, None, Len(body), FALSE, body, "closed", "kv")

\* Whether the chunk loop runs another iteration.
LoopOn(rd) ==
    /\ rd.i < rd.base.chunkCount
    /\ rd.ranged => (~rd.range.nan /\ rd.bytesWritten < rd.range.end - rd.range.start + 1)

\* buildChunkedFullResponse up to its return: the 200 and the open stream.
M_buildChunkedFullResponse(base) ==
    Resp(304, None, base.totalSize, FALSE, <<>>, "streaming", "kv")
buildChunkedFullResponse(base) ==
    Resp(200, None, base.totalSize, FALSE, <<>>, "streaming", "kv")

\* buildChunkedRangeResponse up to its return: null, or the 206 and the
\* open stream.
buildChunkedRangeResponse(base, header) ==
    LET range == parseRange(header, base.totalSize)
        rangeLength == range.end - range.start + 1
    IN IF ~range.ok THEN NoResp
       ELSE Resp(206, Some(CR(range.nan, range.start, range.end, base.totalSize)),
                 rangeLength, range.nan, <<>>, "streaming", "kv")

\* What one iteration of the chunk loop writes, given the chunk it read.
M_ChunkSlice(rd, chunk) == chunk
ChunkSlice(rd, chunk) ==
    LET chunkSize == rd.base.chunkSizes[rd.i + 1]
    IN IF ~rd.ranged THEN chunk
       ELSE Slice(chunk, Max(0, rd.range.start - rd.chunkOffset),
                  Min(chunkSize, rd.range.end - rd.chunkOffset + 1))

\* Whether iteration i reads its chunk (the full read reads every chunk).
Overlaps(rd) ==
    LET chunkSize == rd.base.chunkSizes[rd.i + 1]
        chunkEnd == rd.chunkOffset + chunkSize - 1
    IN ~rd.ranged \/ (chunkEnd >= rd.range.start /\ rd.chunkOffset <= rd.range.end)

\* ---------------------------------------------------------------- requests
\* Handlers are admitted one at a time; the background work of the earlier
\* requests runs on beside the handler and the body stream of the current one.
\* err tells that a read of the slow cache threw while the request was
\* served, warm that a cache held the object, no write to it in flight,
\* when the request arrived, noCache that the request carries the header
\* Cache-Control: no-cache (getObject never reads it).
Req(pc, method, bypass, hdr, cond, direct, trace, ops, resp, rd, before) ==
    [pc |-> pc, method |-> method, bypass |-> bypass, hdr |-> hdr, cond |-> cond,
     direct |-> direct, trace |-> trace, ops |-> ops, resp |-> resp, rd |-> rd,
     before |-> before, err |-> FALSE, warm |-> FALSE, noCache |-> FALSE]
Idle == Req("idle", "GET", FALSE, NoRange, FALSE, FALSE, <<>>, {}, NoResp, NoRd, {})

\* A plain GET: no Range, no validator.
Plain(q) == q.method = "GET" /\ ~q.hdr.present /\ ~q.cond

\* The bodies of complete 200s, once request q has ended.
Served(q) ==
    IF q.pc = "done" /\ Plain(q) /\ ~q.direct /\ q.resp.status = 200 /\ q.resp.state = "closed"
    THEN served \cup {q.resp.body} ELSE served

\* kvCacheMatch returned null: a direct call ends, getObject goes on to the
\* origin.
KvMiss(q) ==
    IF q.direct THEN [q EXCEPT !.pc = "done", !.resp = NoResp]
    ELSE [q EXCEPT !.pc = "origin", !.trace = Append(@, "slow:miss")]

\* A read inside kvCacheMatch threw: its catch returns null, so a direct call
\* ends with null and getObject goes on to the origin.
M_KvThrow(q) == [q EXCEPT !.pc = "threw", !.err = TRUE]
KvThrow(q) ==
    IF q.direct THEN [q EXCEPT !.pc = "done", !.resp = NoResp, !.err = TRUE]
    ELSE [q EXCEPT !.pc = "origin", !.trace = Append(@, "slow:err"), !.err = TRUE]

\* The read of a chunk threw inside the streaming IIFE, after the response
\* was returned: its catch aborts the stream.
KvStreamThrow(q) == [q EXCEPT !.pc = "done", !.resp.state = "aborted", !.err = TRUE]

\* buildHeaders: the headers of every slow-cache response; the ETag is set
\* when the metadata holds one.
buildHeaders(resp, metadata) == Tagged(resp, metadata.etag)

\* kvCacheMatch returned a response: getObject returns it.
KvHit(q, resp, rd) ==
    [q EXCEPT !.pc = IF resp.state = "streaming" THEN "kvChunk" ELSE "done",
              !.trace = Append(@, "slow:hit"), !.resp = buildHeaders(resp, rd.base),
              !.rd = rd]

\* An open chunk stream with nothing to read closes at once.
CloseIfOver(resp, rd) ==
    IF resp.state = "streaming" /\ ~LoopOn(rd) THEN [resp EXCEPT !.state = "closed"] ELSE resp

\* The expiry check of kvCacheMatch: `age > metadata.maxAge`.
M_Expired(base) == FALSE
Expired(base) ==
    LET age == now - base.createdAt
    IN age > base.maxAge

\* kvCacheMatch from getWithMetadata to the branch on isChunked.
KvMetaStep(q) ==
    IF kvBase = None THEN KvMiss(q)
    ELSE LET base == Get(kvBase)
         IN IF Expired(base) THEN KvMiss(q)
            ELSE IF ~base.isChunked THEN [q EXCEPT !.pc = "kvBody", !.rd = Rd(0, 0, 0, Null, FALSE, base)]
            ELSE IF base.single \/ base.chunkCount = 0 THEN KvMiss(q)
            ELSE IF q.hdr.present
            THEN LET resp == buildChunkedRangeResponse(base, q.hdr)
                     rd == Rd(0, 0, 0, parseRange(q.hdr, base.totalSize), TRUE, base)
                 IN IF resp.status = 0 THEN KvMiss(q) ELSE KvHit(q, CloseIfOver(resp, rd), rd)
            ELSE LET rd == Rd(0, 0, 0, Null, FALSE, base)
                 IN KvHit(q, CloseIfOver(buildChunkedFullResponse(base), rd), rd)

KvMeta ==
    /\ req.pc = "kvMeta"
    /\ LET q == [req EXCEPT !.ops = @ \cup {"kvMatch"}]
       IN req' = KvMetaStep(q) \/ req' = KvThrow(q)
    /\ served' = Served(req')
    /\ UNCHANGED <<env, now, fast, kvStore, kvPending, cur, task, putLog>>

\* kvCacheMatch, single entry: the read of `{cacheKey}_body`.
KvBodyStep(q) ==
    IF kvBody = None THEN KvMiss(q)
    ELSE IF Len(Get(kvBody)) # q.rd.base.contentLength THEN KvMiss(q)
    ELSE KvHit(q, buildResponse(Get(kvBody), q.hdr), q.rd)

KvBody ==
    /\ req.pc = "kvBody"
    /\ req' = KvBodyStep(req) \/ req' = KvThrow(req)
    /\ served' = Served(req')
    /\ UNCHANGED <<env, now, fast, kvStore, kvPending, cur, task, putLog>>

\* One iteration of the chunk loop of buildChunkedFullResponse or
\* buildChunkedRangeResponse: a missing chunk aborts the stream.
KvChunkStep(q) ==
    LET rd == q.rd
        chunkSize == rd.base.chunkSizes[rd.i + 1]
    IN IF Overlaps(rd) /\ kvChunk[rd.i] = None
       THEN [q EXCEPT !.pc = "done", !.resp.state = "aborted"]
       ELSE LET slice == IF Overlaps(rd) THEN ChunkSlice(rd, Get(kvChunk[rd.i])) ELSE <<>>
                nrd == Rd(rd.i + 1, rd.chunkOffset + chunkSize, rd.bytesWritten + Len(slice),
                          rd.range, rd.ranged, rd.base)
                over == ~LoopOn(nrd)
            IN [q EXCEPT !.rd = nrd, !.resp.body = @ \o slice,
                         !.resp.state = IF over THEN "closed" ELSE @,
                         !.pc = IF over THEN "done" ELSE @]

KvChunk ==
    /\ req.pc = "kvChunk"
    /\ req' = KvChunkStep(req) \/ req' = KvStreamThrow(req)
    /\ served' = Served(req')
    /\ UNCHANGED <<env, now, fast, kvStore, kvPending, cur, task, putLog>>

\* Time passes.
Tick ==
    /\ now < MaxTime
    /\ now' = now + 1
    /\ UNCHANGED <<env, fast, kvStore, kvPending, cur, req, task, putLog, served>>

\* ------------------------------------------------------------ the origin
\* The bucket holds no object under the key when originSize is 0.
\* An R2Range: {offset}, {offset, length} or {suffix}; offset is NaN when
\* parseInt read the empty string.
R2Range(kind, nan, offset, length, suffix) ==
    [kind |-> kind, nan |-> nan, offset |-> offset, length |-> length, suffix |-> suffix]
NoR2Range == R2Range("none", FALSE, 0, 0, 0)

parseRangeHeader(header) ==
    IF ~header.m THEN R2Range("offset", FALSE, 0, 0, 0)
    ELSE IF ~header.hasS /\ header.hasE THEN R2Range("suffix", FALSE, 0, 0, header.e)
    ELSE IF ~header.hasE THEN R2Range("offset", ~header.hasS, header.s, 0, 0)
    ELSE R2Range("offlen", FALSE, header.s, header.e - header.s + 1, 0)

M_buildContentRange(range, total) == CR(FALSE, range.offset, total - 1, total)
buildContentRange(range, total) ==
    IF range.kind = "suffix" /\ range.suffix # 0
    THEN CR(FALSE, total - range.suffix, total - 1, total)
    ELSE LET offset == IF range.kind \in {"offset", "offlen"} THEN range.offset ELSE 0
             nan == range.kind \in {"offset", "offlen"} /\ range.nan
             end == IF range.kind = "offlen" /\ range.length # 0
                    THEN offset + range.length - 1 ELSE total - 1
         IN CR(nan, offset, end, total)

\* rangeLength; the second component tells a NaN result.
rangeLength(range, total) ==
    IF range.kind = "offlen" /\ range.length # 0 THEN <<range.length, FALSE>>
    ELSE IF range.kind = "suffix" /\ range.suffix # 0 THEN <<range.suffix, FALSE>>
    ELSE IF range.kind \in {"offset", "offlen"} THEN <<total - range.offset, range.nan>>
    ELSE <<total, FALSE>>

\* Whether the bucket can serve the range of an object of size total.
R2Satisfiable(range, total) ==
    CASE range.kind = "none" -> TRUE
      [] range.kind = "offset" -> ~range.nan /\ range.offset < total
      [] range.kind = "offlen" -> range.offset < total /\ range.length > 0
      [] range.kind = "suffix" -> range.suffix > 0

\* The bytes bucket.get(key, {range}) returns: the interval clamped to the
\* object.
R2Slice(range, total) ==
    CASE range.kind = "none" -> Body(total)
      [] range.kind = "offset" -> Slice(Body(total), range.offset, total)
      [] range.kind = "offlen" -> Slice(Body(total), range.offset, range.offset + range.length)
      [] range.kind = "suffix" -> Slice(Body(total), total - Min(range.suffix, total), total)

\* The `range` field of the object returned: the range as requested, or the
\* interval served as {offset, length}.
R2Ranges(range, total) ==
    IF range.kind = "none" THEN {NoR2Range}
    ELSE LET got == R2Slice(range, total)
         IN {range, R2Range("offlen", FALSE, IF got = <<>> THEN 0 ELSE got[1] - 1, Len(got), 0)}

\* ------------------------------------------------------------ the fast tier
\* The interval of a Range header the Cache API serves from a stored 200
\* (RFC 9110): None when the header is absent, malformed or unsatisfiable.
NativeRange(header, total) ==
    IF ~header.present \/ ~header.m THEN None
    ELSE IF ~header.hasS /\ ~header.hasE THEN None
    ELSE IF ~header.hasS
         THEN (IF header.e = 0 \/ total = 0 THEN None ELSE Some(<<Max(total - header.e, 0), total - 1>>))
    ELSE IF header.s >= total \/ (header.hasE /\ header.s > header.e) THEN None
    ELSE Some(<<header.s, IF header.hasE THEN Min(header.e, total - 1) ELSE total - 1>>)

\* cache.match() on a stored entry: 304 for a matching validator, 206 for a
\* Range, the stored 200 otherwise.
NativeMatch(entry, header, cond) ==
    LET total == Len(entry.body)
        nr == NativeRange(header, total)
    IN IF cond /\ entry.etag = ETag
       THEN Tagged(Resp(304, None, 0, FALSE, <<>>, "closed", "fast"), entry.etag)
       ELSE IF entry.status = 200 /\ nr # None
       THEN LET a == Get(nr)[1]
                b == Get(nr)[2]
            IN Tagged(Resp(206, Some(CR(FALSE, a, b, total)), b - a + 1, FALSE,
                           Slice(entry.body, a, b + 1), "closed", "fast"), entry.etag)
       ELSE [entry EXCEPT !.src = "fast"]

\* --------------------------------------------------------------- getObject
\* The Range headers the requests of the service carry.
MainHeaders == {NoRange, FromTo(1, CHUNK_SIZE), Suffix(1)}

\* Whether a cache tier holds the object and no write to it is in flight.
Warm == fast # None \/ (kvAvail /\ kvBase # None /\ kvPending = {})

\* A request arrives once the handler before it has returned and its body
\* stream has ended (a pumped body is the pump's to end): GET or HEAD, with
\* or without bypass, plain, with a satisfiable Range, or with a validator
\* the object matches; a plain GET that finds a cache tier warm may carry
\* Cache-Control: no-cache (on a cold cache the header has nothing to skip).
Start ==
    /\ cur < MaxReq
    /\ req.pc \in {"idle", "done"}
    /\ \E method \in {"GET", "HEAD"}, bypass \in BOOLEAN, hdr \in MainHeaders, cond \in BOOLEAN,
          noCache \in BOOLEAN :
        /\ hdr.present => (~cond /\ NativeRange(hdr, originSize) # None)
        /\ noCache => (Warm /\ method = "GET" /\ ~bypass /\ ~hdr.present /\ ~cond)
        /\ req' = [Req(IF bypass THEN "origin" ELSE "fastProbe", method, bypass, hdr, cond,
                       FALSE, <<>>, {}, NoResp, NoRd, served)
                       EXCEPT !.warm = Warm, !.noCache = noCache]
    /\ cur' = cur + 1
    /\ UNCHANGED <<env, now, fast, kvStore, kvPending, task, putLog, served>>

\* Where getObject goes after the fast-cache probe did not hit.
M_AfterFast(q) == "origin"
AfterFast(q) == IF kvAvail THEN "kvMeta" ELSE "origin"

\* cache.match(cacheMatchKey, {ignoreMethod: true}): a hit is returned, a
\* miss or an exception goes on. The catch only logs, so an exception on an
\* empty cache takes the steps of the miss and is the miss here; the
\* exception that hides a stored entry is the one kept apart.
FastProbe ==
    /\ req.pc = "fastProbe"
    /\ \/ /\ fast # None
          /\ req' = [req EXCEPT !.pc = "done", !.trace = Append(@, "fast:hit"),
                                !.ops = @ \cup {"fastMatch"},
                                !.resp = NativeMatch(Get(fast), req.hdr, req.cond)]
       \/ /\ fast = None
          /\ req' = [req EXCEPT !.pc = AfterFast(req), !.trace = Append(@, "fast:miss"),
                                !.ops = @ \cup {"fastMatch"}]
       \/ /\ fast # None
          /\ req' = [req EXCEPT !.pc = AfterFast(req), !.trace = Append(@, "fast:err"),
                                !.ops = @ \cup {"fastMatch"}]
    /\ served' = Served(req')
    /\ UNCHANGED <<env, now, fast, kvStore, kvPending, cur, task, putLog>>

\* ---------------------------------------------------------- getObjectViaR2
\* buildCachePutHeaders keeps an allow-list of headers (Content-Range is not
\* on it) and sets Content-Length; with status 200 and the body this is the
\* Response handed to cache.put().
CachePutResponse(body, contentLength) ==
    Tagged(Resp(200, None, contentLength, FALSE, body, "closed", "origin"), ETag)

\* One cache write, as logged: the tier and the Response handed to it.
Put(tier, resp) == [tier |-> tier, resp |-> resp]

\* The guard of every populate: `!bypassCache && request.method === 'GET'`.
M_Cacheable(q) == q.method = "GET"
M_CacheableAnyMethod(q) == ~q.bypass
Cacheable(q) == ~q.bypass /\ q.method = "GET"

\* The options of the background fetch of cacheFullFromR2: none, whatever
\* the Range header of the request was.
M_FullFetchRange(header) == parseRangeHeader(header)
FullFetchRange(header) == NoR2Range

\* The tier a populate writes: the slow cache when there is one and the
\* object is over the limit of the Cache API, else the fast cache.
M_UseKv(size) == kvAvail /\ size > MAX_SINGLE_ENTRY
UseKv(size) == kvAvail /\ size > CACHE_API_SIZE_LIMIT

\* What the handler returns and registers once the bucket returned a body:
\* <<response, task, cache operations issued, responses handed to a cache>>.
Dispatch(q, got, range) ==
    LET size == originSize
        hasTask == Cacheable(q)
    IN IF q.hdr.present /\ range.kind # "none"
       THEN <<Tagged(Resp(206, Some(buildContentRange(range, size)), rangeLength(range, size)[1],
                          rangeLength(range, size)[2], got, "closed", "origin"), ETag),
              IF hasTask THEN Task("full", "fetch", size, now, <<>>, q.hdr) ELSE NoTask,
              IF hasTask THEN {"populate"} ELSE {}, {}>>
       ELSE IF ~Cacheable(q)
       THEN <<Tagged(Resp(200, None, size, FALSE, got, "closed", "origin"), ETag), NoTask, {}, {}>>
       ELSE IF UseKv(size)
       THEN <<Tagged(Resp(200, None, size, FALSE, got, "closed", "origin"), ETag),
              StartStream(got, size), {"kvWrite"},
              {Put("kv", CachePutResponse(got, size))}>>
       ELSE <<Tagged(Resp(200, None, size, FALSE, <<>>, "streaming", "origin"), ETag),
              [Task("pump", "pump", size, now, got, NoRange)
                   EXCEPT !.client = "open", !.cache = "open"], {"fastPut"},
              {Put("fast", CachePutResponse(got, size))}>>

\* ------------------------------------------- around getObject: serveObject
\* One step of the worker outside getObject: which one (op), what it was
\* given and what it produced.
Front(op, in, out) == [op |-> op, in |-> in, out |-> out]
FrontIdle == Front("none", [x |-> 0], [x |-> 0])

\* Everything but front.
service == <<originSize, kvAvail, now, fast, kvStore, kvPending, cur, req, task,
             putLog, served, r2, pump>>

\* The names a query parameter or bypassParamName can have, and the values
\* c.req.query(name) returns for a parameter that is present.
ParamNames == {"no-cache", "skip"}
ParamValues == {"", "1"}

\* env.CACHE as serveObject reads it: each field may be missing (None).
BypassConfigs ==
    [cacheEnabled : {None, Some(TRUE), Some(FALSE)},
     bypassParamEnabled : {None, Some(TRUE), Some(FALSE)},
     bypassParamName : {None} \cup {Some(n) : n \in ParamNames}]

\* `x ?? d`.
OrElse(o, d) == IF IsSome(o) THEN Get(o) ELSE d

\* serveObject: the bypass flag handed to getObject.
bypassCache(cacheConfig, query) ==
    LET cacheEnabled == cacheConfig.cacheEnabled # Some(FALSE)
        bypassParamEnabled == OrElse(cacheConfig.bypassParamEnabled, FALSE)
        bypassParamName == OrElse(cacheConfig.bypassParamName, "no-cache")
    IN ~cacheEnabled \/ (bypassParamEnabled /\ query[bypassParamName] # None)

ServeObject ==
    /\ front.op = "none"
    /\ \E cacheConfig \in BypassConfigs,
          query \in [ParamNames -> {None} \cup {Some(v) : v \in ParamValues}] :
          front' = Front("serveObject", [cacheConfig |-> cacheConfig, query |-> query],
                         [bypassCache |-> bypassCache(cacheConfig, query)])
    /\ UNCHANGED service

\* ------------------------------------------------------- the bucket router
\* Strings are sequences of characters.
startsWith(str, prefix) ==
    Len(prefix) <= Len(str) /\ SubSeq(str, 1, Len(prefix)) = prefix
endsWith(str, suffix) ==
    Len(suffix) <= Len(str) /\ SubSeq(str, Len(str) - Len(suffix) + 1, Len(str)) = suffix

\* `str.replace(/^\//, '')`.
stripSlash(str) == IF startsWith(str, <<"/">>) THEN Tail(str) ELSE str

\* Host names, host patterns, request paths and path prefixes.
Hosts == {<<"a">>, <<"b">>, <<".", "a">>, <<"b", ".", "a">>, <<"a", ".", "a">>}
HostPatterns == {<<"*">>, <<"*", ".", "a">>, <<"a">>, <<"b", ".", "a">>}
Paths == {<<"/">>, <<"/", "p">>, <<"/", "p", "/", "k">>, <<"/", "k">>}
PathPrefixes == {<<"/">>, <<"/", "p">>}

\* A BucketRoute; the i-th route of a config names the i-th bucket.
BucketNames == <<"A", "B", "C">>
BucketRoute(host, pathPrefix, bucket, stripPrefix) ==
    [host |-> host, pathPrefix |-> pathPrefix, bucket |-> bucket, stripPrefix |-> stripPrefix]
RoutesOf(n) ==
    {rs \in [1..n -> {BucketRoute(h, pp, b, sp) : h \in HostPatterns, pp \in PathPrefixes,
                                                  b \in {BucketNames[i] : i \in 1..MaxRoutes},
                                                  sp \in BOOLEAN}] :
        \A i \in 1..n : rs[i].bucket = BucketNames[i]}
Routings ==
    [routes : UNION {RoutesOf(n) : n \in 0..MaxRoutes},
     defaultBucket : {None, Some("C")}]

\* The R2 bindings of env.
Bindings == {{"A", "B", "C", "R2"}, {"B", "C", "R2"}, {"A", "B", "R2"}}

\* matchHost.
M_matchHost(pattern, hostname) ==
    IF pattern = <<"*">> THEN TRUE
    ELSE IF startsWith(pattern, <<"*", ".">>)
    THEN endsWith(hostname, Tail(pattern))
    ELSE pattern = hostname
matchHost(pattern, hostname) ==
    IF pattern = <<"*">> THEN TRUE
    ELSE IF startsWith(pattern, <<"*", ".">>)
    THEN LET suffix == Tail(pattern)
         IN endsWith(hostname, suffix) /\ Len(hostname) > Len(suffix)
    ELSE pattern = hostname

\* The loop over routing.routes from route i on: the index of the first
\* route that matches, 0 when none does.
RECURSIVE findRoute(_, _, _, _)
findRoute(routes, i, hostname, pathname) ==
    IF i > Len(routes) THEN 0
    ELSE IF matchHost(routes[i].host, hostname) /\ startsWith(pathname, routes[i].pathPrefix)
    THEN i
    ELSE findRoute(routes, i + 1, hostname, pathname)

\* bucketRouter: a 500, or the bucket and the object key set for the
\* handler (status 0: next() is called).
bucketRouter(routing, bindings, hostname, pathname) ==
    LET m == findRoute(routing.routes, 1, hostname, pathname)
        bucketName == IF m > 0 THEN routing.routes[m].bucket
                      ELSE OrElse(routing.defaultBucket, "R2")
        key == Tail(pathname)
        prefixWithoutSlash == stripSlash(routing.routes[m].pathPrefix)
        objectKey == IF m > 0 /\ routing.routes[m].stripPrefix
                        /\ routing.routes[m].pathPrefix # <<"/">>
                        /\ startsWith(key, prefixWithoutSlash)
                     THEN stripSlash(SubSeq(key, Len(prefixWithoutSlash) + 1, Len(key)))
                     ELSE key
    IN IF bucketName \notin bindings
       THEN [status |-> 500, bucketName |-> bucketName, objectKey |-> <<>>]
       ELSE [status |-> 0, bucketName |-> bucketName, objectKey |-> objectKey]

BucketRouter ==
    /\ front.op = "none"
    /\ \E routing \in Routings, bindings \in Bindings, hostname \in Hosts, pathname \in Paths :
          front' = Front("bucketRouter",
                         [routing |-> routing, bindings |-> bindings,
                          hostname |-> hostname, pathname |-> pathname],
                         bucketRouter(routing, bindings, hostname, pathname))
    /\ UNCHANGED service

\* ------------------------------------------------------ the header builder
\* A cache tag: the configured prefix and the text after it.
Tag(prefix, text) == [prefix |-> prefix, text |-> text]

\* A Cache-Control value: 'no-store, max-age=0', 'public, max-age=M,
\* stale-while-revalidate=S', or what the origin recorded at upload.
CC(kind, maxAge, swr) == [kind |-> kind, maxAge |-> maxAge, swr |-> swr]
NoStore == CC("no-store", 0, 0)
OriginCC == CC("origin", 0, 0)

\* CacheConfig as the header builder reads it: the entry of
\* objectTypeConfig for the object's type (None when it has none, maxAge
\* None when the entry has no maxAge) and cacheTags.
HeaderConfigs ==
    [defaultMaxAge : 1..2, defaultStaleWhileRevalidate : 0..1,
     otConfig : {None} \cup {Some([maxAge |-> m, tags |-> t]) :
                                 m \in {None, Some(0), Some(3)}, t \in {<<>>, <<"images">>}},
     enabled : BOOLEAN, prefix : {"", "cdn-"}, defaultTags : {<<>>, <<"all">>}]

\* What buildResponseHeaders is called with besides the config: whether the
\* origin recorded a Cache-Control, the object type (None for undefined),
\* the host (None when not given), the custom tags and the bypass flag.
HeaderExtras ==
    [r2CacheControl : BOOLEAN, objectType : {None, Some("image")},
     host : {None, Some("h")}, customTags : {<<>>, <<"x">>}, bypass : BOOLEAN]

\* generateCacheTags, for the object key "k".
generateCacheTags(objectType, cacheConfig, host) ==
    IF ~cacheConfig.enabled THEN <<>>
    ELSE LET prefix == cacheConfig.prefix
             url == IF IsSome(host) THEN <<Tag(prefix, "h/k")>> ELSE <<Tag(prefix, "k")>>
             otTags == IF IsSome(objectType) /\ IsSome(cacheConfig.otConfig)
                       THEN Get(cacheConfig.otConfig).tags ELSE <<>>
             type == IF IsSome(objectType)
                     THEN <<Tag(prefix, "type-image")>>
                              \o [i \in 1..Len(otTags) |-> Tag(prefix, otTags[i])]
                     ELSE <<>>
             defaults == [i \in 1..Len(cacheConfig.defaultTags) |->
                              Tag(prefix, cacheConfig.defaultTags[i])]
         IN url \o type \o defaults

\* buildCacheControl: `otConfig?.maxAge ?? cacheConfig.defaultMaxAge`.
M_buildCacheControl(objectType, cacheConfig) ==
    LET otConfig == IF IsSome(objectType) THEN cacheConfig.otConfig ELSE None
        maxAge == IF IsSome(otConfig) /\ IsSome(Get(otConfig).maxAge)
                     /\ Get(Get(otConfig).maxAge) # 0
                  THEN Get(Get(otConfig).maxAge) ELSE cacheConfig.defaultMaxAge
    IN CC("public", maxAge, cacheConfig.defaultStaleWhileRevalidate)
buildCacheControl(objectType, cacheConfig) ==
    LET otConfig == IF IsSome(objectType) THEN cacheConfig.otConfig ELSE None
        maxAge == IF IsSome(otConfig) /\ IsSome(Get(otConfig).maxAge)
                  THEN Get(Get(otConfig).maxAge) ELSE cacheConfig.defaultMaxAge
    IN CC("public", maxAge, cacheConfig.defaultStaleWhileRevalidate)

\* buildResponseHeaders: the Cache-Control and Cache-Tag headers of the
\* result (None for a header that is absent).
buildResponseHeaders(cacheConfig, extra) ==
    LET r2Headers == [cacheControl |-> IF extra.r2CacheControl THEN Some(OriginCC) ELSE None,
                      cacheTag |-> None]
        tags == generateCacheTags(extra.objectType, cacheConfig, extra.host)
                    \o extra.customTags
    IN IF extra.bypass THEN [r2Headers EXCEPT !.cacheControl = Some(NoStore)]
       ELSE [cacheControl |-> Some(buildCacheControl(extra.objectType, cacheConfig)),
             cacheTag |-> IF Len(tags) > 0 THEN Some(tags) ELSE None]

BuildHeaders ==
    /\ front.op = "none"
    /\ \E cacheConfig \in HeaderConfigs, extra \in HeaderExtras :
          front' = Front("buildResponseHeaders", [cacheConfig |-> cacheConfig, extra |-> extra],
                         buildResponseHeaders(cacheConfig, extra))
    /\ UNCHANGED service

\* ------------------------------------------------------------------ r2Get
\* STORAGE of the config; retryDelay is in seconds.
StorageConfig(maxRetries, retryDelay, exponentialBackoff) ==
    [maxRetries |-> maxRetries, retryDelay |-> retryDelay,
     exponentialBackoff |-> exponentialBackoff]
DefaultStorage == StorageConfig(3, 1, TRUE)

\* One call of r2Get: the loop variable, the bucket.get() calls made and
\* those that threw, the delays slept, and how the call ended ("ok" is what
\* bucket.get() resolved to, "null" the return after the loop, "throw" the
\* error rethrown). client tells which of the two origin clients runs, r2Get
\* or R2StorageAdapter.getObject; nulls counts the calls that resolved to no
\* object.
R2Get(cfg, pc, attempt, calls, fails, delays, outcome) ==
    [cfg |-> cfg, pc |-> pc, attempt |-> attempt, calls |-> calls, fails |-> fails,
     delays |-> delays, outcome |-> outcome, client |-> "r2Get", nulls |-> 0]
R2Idle(cfg) == R2Get(cfg, "idle", 0, 0, 0, <<>>, "")

\* The delay slept after the attempt (counted from 0) threw.
M_Delay(cfg, attempt) ==
    IF cfg.exponentialBackoff THEN cfg.retryDelay * Pow2(attempt + 1) ELSE cfg.retryDelay
Delay(cfg, attempt) ==
    IF cfg.exponentialBackoff THEN cfg.retryDelay * Pow2(attempt) ELSE cfg.retryDelay

\* The loop test `attempt < maxRetries`; past the loop r2Get returns null.
R2Loop(c) ==
    IF c.attempt < c.cfg.maxRetries THEN [c EXCEPT !.pc = "try"]
    ELSE [c EXCEPT !.pc = "returned", !.outcome = "null"]

\* How a call of r2Get can end.
R2Outcomes(cfg) == IF cfg.maxRetries <= 0 THEN {"null"} ELSE {"ok", "throw"}

\* getObjectViaR2 calls r2Get.
R2Enter ==
    /\ req.pc = "origin" /\ r2.pc = "idle" /\ r2.client = "r2Get"
    /\ r2' = R2Loop(r2)
    /\ UNCHANGED <<originSize, kvAvail, now, fast, kvStore, kvPending, cur, req, task,
                   putLog, served, front, pump>>

\* One bucket.get(): it resolves, or it throws, and the error is rethrown
\* when this was the last attempt.
R2Try ==
    /\ r2.pc = "try" /\ r2.client = "r2Get"
    /\ LET c == [r2 EXCEPT !.calls = @ + 1]
       IN \/ r2' = [c EXCEPT !.pc = "returned", !.outcome = "ok",
                             !.nulls = IF originSize = 0 THEN @ + 1 ELSE @]
          \/ r2' = [c EXCEPT !.fails = @ + 1,
                             !.pc = IF c.attempt = c.cfg.maxRetries - 1 THEN "returned" ELSE "sleep",
                             !.outcome = IF c.attempt = c.cfg.maxRetries - 1 THEN "throw" ELSE ""]
    /\ UNCHANGED <<originSize, kvAvail, now, fast, kvStore, kvPending, cur, req, task,
                   putLog, served, front, pump>>

\* The sleep before the next attempt.
R2Sleep ==
    /\ r2.pc = "sleep"
    /\ r2' = R2Loop([r2 EXCEPT !.delays = Append(@, Delay(r2.cfg, r2.attempt)),
                               !.attempt = @ + 1])
    /\ UNCHANGED <<originSize, kvAvail, now, fast, kvStore, kvPending, cur, req, task,
                   putLog, served, front, pump>>

\* R2StorageAdapter.getObject is called: the same loop test; past the loop
\* it returns `object`, undefined when no call resolved to one.
AdapterEnter ==
    /\ r2.pc = "idle" /\ r2.client = "adapter"
    /\ r2' = R2Loop(r2)
    /\ UNCHANGED <<originSize, kvAvail, now, fast, kvStore, kvPending, cur, req, task,
                   putLog, served, front, pump>>

\* One bucket.get() of the adapter: an object ends the loop; no object is
\* followed by a sleep unless this was the last attempt; an error is
\* rethrown when this was the last attempt.
AdapterTry ==
    /\ r2.pc = "try" /\ r2.client = "adapter"
    /\ LET c == [r2 EXCEPT !.calls = @ + 1]
           last == c.attempt = c.cfg.maxRetries - 1
       IN \/ /\ originSize > 0
             /\ r2' = [c EXCEPT !.pc = "returned", !.outcome = "ok"]
          \/ /\ originSize = 0
             /\ r2' = IF last THEN R2Loop([c EXCEPT !.nulls = @ + 1, !.attempt = @ + 1])
                      ELSE [c EXCEPT !.nulls = @ + 1, !.pc = "sleep"]
          \/ r2' = [c EXCEPT !.fails = @ + 1,
                             !.pc = IF last THEN "returned" ELSE "sleep",
                             !.outcome = IF last THEN "throw" ELSE ""]
    /\ UNCHANGED <<originSize, kvAvail, now, fast, kvStore, kvPending, cur, req, task,
                   putLog, served, front, pump>>

\* r2Get and what follows it: 502 when the fetch throws, 404 when the object
\* is absent, 304 when the precondition failed, else the dispatch above.
OriginResult(outcome) ==
    /\ req.pc = "origin"
    /\ LET q == [req EXCEPT !.pc = "done", !.trace = Append(@, "origin")]
           range == IF q.hdr.present THEN parseRangeHeader(q.hdr) ELSE NoR2Range
           object == outcome = "ok" /\ originSize > 0
       IN \/ /\ outcome = "throw"
             /\ req' = [q EXCEPT !.resp = TextResp(502, "Origin Error")]
             /\ UNCHANGED <<task, putLog>>
          \/ /\ outcome # "throw" /\ ~object
             /\ req' = [q EXCEPT !.resp = TextResp(404, "Not Found")]
             /\ UNCHANGED <<task, putLog>>
          \/ /\ object /\ q.cond
             /\ req' = [q EXCEPT !.resp = Tagged(Resp(304, None, 0, FALSE, <<>>, "closed", "origin"), ETag)]
             /\ UNCHANGED <<task, putLog>>
          \/ /\ object /\ ~q.cond /\ R2Satisfiable(range, originSize)
             /\ \E rr \in R2Ranges(range, originSize) :
                  LET d == Dispatch(q, R2Slice(range, originSize), rr)
                  IN /\ req' = [q EXCEPT !.resp = d[1], !.ops = @ \cup d[3]]
                     /\ task' = [task EXCEPT ![cur] = d[2]]
                     /\ putLog' = putLog \cup d[4]
    /\ served' = Served(req')
    /\ UNCHANGED <<env, now, fast, kvStore, kvPending, cur>>

\* getObjectViaR2 with the whole of r2Get as one step.
OriginFetch == \E outcome \in R2Outcomes(r2.cfg) : OriginResult(outcome)

\* cache.put() resolved: the entry is stored, unless the Cache API dropped it.
FastStore(resp) == {Some(resp), fast}

\* What can fail while the pump runs: reader.read() on the origin body, a
\* write to the sink cache.put() consumes, a write to the client sink (the
\* client went away).
PumpFailures == {"source", "cacheSink", "clientSink"}

\* The pump's loop ended: both writers closed.
PumpClose(tk) == [tk EXCEPT !.pc = "closed", !.client = "closed", !.cache = "closed"]

\* The pump's catch: whatever failed, both writers are aborted; n bytes had
\* been written to the sinks by then.
M_PumpAbort(tk, cause, n) ==
    [tk EXCEPT !.pc = "aborted", !.fail = cause, !.client = "aborted", !.cache = "closed",
               !.stream = SubSeq(@, 1, n)]
PumpAbort(tk, cause, n) ==
    [tk EXCEPT !.pc = "aborted", !.fail = cause, !.client = "aborted", !.cache = "aborted",
               !.stream = SubSeq(@, 1, n)]

\* What `await cachePutPromise` leaves in the fast cache: cache.put() stores
\* the body only when its stream was closed at the announced length.
PutOutcome(tk) ==
    IF tk.cache = "closed" THEN FastStore(CachePutResponse(tk.stream, tk.totalSize))
    ELSE {fast}

\* The pump ran to the end (both sinks closed, cache.put() resolved) or a
\* read or write failed on the way. The client sink received the whole body
\* when it was closed and a strict prefix of it when it was aborted. The
\* cache.match() that follows only logs whether the entry persisted.
PumpEnd(t) ==
    /\ task[t].kind = "pump" /\ task[t].pc = "pump"
    /\ \/ /\ task' = [task EXCEPT ![t] = PumpClose(task[t])]
          /\ served' = served \cup {task[t].stream}
       \/ /\ \E cause \in PumpFailures, n \in 0..(Len(task[t].stream) - 1) :
                   task' = [task EXCEPT ![t] = PumpAbort(task[t], cause, n)]
          /\ served' = served
    /\ fast' \in PutOutcome(task'[t])
    /\ UNCHANGED <<env, now, kvStore, kvPending, cur, req, putLog>>

\* cacheFullFromR2: the background fetch of the whole object after a Range
\* miss, into the tier its size selects.
FullFetch(t) ==
    /\ task[t].kind = "full" /\ task[t].pc = "fetch"
    /\ LET got == R2Slice(FullFetchRange(task[t].hdr), originSize)
           done == Task("full", "done", task[t].totalSize, task[t].createdAt, <<>>, NoRange)
       IN \/ /\ task' = [task EXCEPT ![t] = done]
             /\ UNCHANGED <<fast, putLog>>
          \/ /\ originSize > 0 /\ UseKv(originSize)
             /\ task' = [task EXCEPT ![t] = StartStream(got, originSize)]
             /\ putLog' = putLog \cup {Put("kv", CachePutResponse(got, originSize))}
             /\ fast' = fast
          \/ /\ originSize > 0 /\ ~UseKv(originSize)
             /\ task' = [task EXCEPT ![t] = done]
             /\ putLog' = putLog \cup {Put("fast", CachePutResponse(got, originSize))}
             /\ fast' \in FastStore(CachePutResponse(got, originSize))
    /\ UNCHANGED <<env, now, kvStore, kvPending, cur, req, served>>

\* -------------------------------------------------- the pump, frame by frame
\* The loop of the pump: frames is what reader.read() yields one after the
\* other, k how many of them were read, pend the writers whose write (or
\* close) of the moment has not settled, client and cache the frames each
\* sink accepted, and the state of each writer.
Pump(pc, frames, k, pend, client, cache, clientState, cacheState) ==
    [pc |-> pc, frames |-> frames, k |-> k, pend |-> pend, client |-> client,
     cache |-> cache, clientState |-> clientState, cacheState |-> cacheState]
NoPump == Pump("idle", <<>>, 0, {}, <<>>, <<>>, "open", "open")

\* Everything but pump.
besidePump == <<originSize, kvAvail, now, fast, kvStore, kvPending, cur, req, task,
                putLog, served, r2, front>>

\* The body cut into the frames of the sizes fs.
RECURSIVE Split(_, _)
Split(body, fs) ==
    IF fs = <<>> THEN <<>>
    ELSE <<SubSeq(body, 1, Head(fs))>> \o Split(SubSeq(body, Head(fs) + 1, Len(body)), Tail(fs))

\* `await Promise.all([cacheWriter.write(value), clientWriter.write(value)])`
\* resolves when no write is left unsettled.
M_WritesSettled(pend) == Cardinality(pend) <= 1
WritesSettled(pend) == pend = {}

\* The catch of the pump: both writers are aborted (the abort of a writer
\* already closed is rejected and ignored).
PumpCatch(p) ==
    [p EXCEPT !.pc = "aborted", !.pend = {},
              !.clientState = IF @ = "closed" THEN @ ELSE "aborted",
              !.cacheState = IF @ = "closed" THEN @ ELSE "aborted"]

\* The body of an object the Cache API takes starts to be pumped, arriving
\* in frames of any sizes.
PumpStart ==
    /\ pump.pc = "idle" /\ ~UseKv(originSize)
    /\ \E fs \in Frames(originSize) :
        pump' = Pump("read", Split(Body(originSize), fs), 0, {}, <<>>, <<>>, "open", "open")
    /\ UNCHANGED besidePump

\* `await reader.read()`: the next frame, the end of the stream, or an error.
PumpRead ==
    /\ pump.pc = "read"
    /\ \/ /\ pump.k < Len(pump.frames)
          /\ pump' = [pump EXCEPT !.pc = "write", !.k = @ + 1, !.pend = {"cache", "client"}]
       \/ /\ pump.k = Len(pump.frames)
          /\ pump' = [pump EXCEPT !.pc = "close", !.pend = {"cache", "client"}]
       \/ pump' = PumpCatch(pump)
    /\ UNCHANGED besidePump

\* One of the two writes of the frame settles: the sink accepted the frame,
\* or the write rejected and the pump is in its catch.
PumpWrite(sink) ==
    /\ pump.pc = "write" /\ sink \in pump.pend
    /\ \/ LET value == pump.frames[pump.k]
              left == pump.pend \ {sink}
          IN pump' = [pump EXCEPT !.pend = left,
                                  !.client = IF sink = "client" THEN Append(@, value) ELSE @,
                                  !.cache = IF sink = "cache" THEN Append(@, value) ELSE @,
                                  !.pc = IF WritesSettled(left) THEN "read" ELSE "write"]
       \/ pump' = PumpCatch(pump)
    /\ UNCHANGED besidePump

\* `await Promise.all([cacheWriter.close(), clientWriter.close()])`: one of the
\* two settles.
PumpCloseSink(sink) ==
    /\ pump.pc = "close" /\ sink \in pump.pend
    /\ \/ LET left == pump.pend \ {sink}
          IN pump' = [pump EXCEPT !.pend = left,
                                  !.clientState = IF sink = "client" THEN "closed" ELSE @,
                                  !.cacheState = IF sink = "cache" THEN "closed" ELSE @,
                                  !.pc = IF left = {} THEN "closed" ELSE "close"]
       \/ pump' = PumpCatch(pump)
    /\ UNCHANGED besidePump

\* ------------------------------------------- the storage format on its own
\* kvCachePut, kvCachePutStream and kvCacheMatch called directly: one write
\* of Body(originSize) runs to the end, then a match under any Range header.
CallPutStream ==
    /\ cur = 0 /\ task[1].kind = "none"
    /\ task' = [task EXCEPT ![1] = StartStream(Body(originSize), originSize)]
    /\ UNCHANGED <<env, now, fast, kvStore, kvPending, cur, req, putLog, served>>

CallPut ==
    /\ cur = 0 /\ task[1].kind = "none"
    /\ task' = [task EXCEPT ![1] = Task("kvPut", "await", originSize, now, Body(originSize), NoRange)]
    /\ kvPending' = kvPending \cup kvCachePutPuts(1, Body(originSize), now)
    /\ UNCHANGED <<env, now, fast, kvStore, cur, req, putLog, served>>

CallMatch ==
    /\ cur = 0
    /\ Returned(1)
    /\ \E h \in RangeHeaders :
        req' = [Idle EXCEPT !.pc = "kvMeta", !.direct = TRUE, !.hdr = h]
    /\ cur' = 1
    /\ UNCHANGED <<env, now, fast, kvStore, kvPending, task, putLog, served>>

\* getObject called with bypassCache under any Range header: the origin
\* path on its own.
CallGetObject ==
    /\ cur = 0
    /\ task[1].kind = "none"
    /\ \E h \in RangeHeaders :
        req' = [Idle EXCEPT !.pc = "origin", !.bypass = TRUE, !.hdr = h]
    /\ cur' = 1
    /\ UNCHANGED <<env, now, fast, kvStore, kvPending, task, putLog, served>>

InitDirect ==
    /\ originSize \in 1..MaxSize
    /\ kvAvail = TRUE
    /\ now = 0
    /\ fast = None
    /\ kvBase = None
    /\ kvBody = None
    /\ kvChunk = [i \in ChunkIds |-> None]
    /\ kvPending = {}
    /\ cur = 0
    /\ req = Idle
    /\ task = [r \in ReqIds |-> NoTask]
    /\ putLog = {}
    /\ served = {}
    /\ r2 = R2Idle(DefaultStorage)
    /\ front = FrontIdle
    /\ pump = NoPump

NextDirect ==
    \/ CallPutStream
    \/ CallPut
    \/ PutStream(1)
    \/ KvPutApply
    \/ KvPutFail
    \/ CallMatch
    \/ CallGetObject
    \/ OriginFetch
    \/ KvMeta
    \/ KvBody
    \/ KvChunk
    \/ Tick

SpecDirect == InitDirect /\ [][NextDirect]_vars

\* ------------------------------------------------------- r2Get on its own
\* getObject called with bypassCache under any storage config, r2Get running
\* attempt by attempt.
R2Return ==
    /\ r2.pc = "returned" /\ r2.client = "r2Get"
    /\ OriginResult(r2.outcome)

InitRetry ==
    /\ originSize \in 0..1
    /\ kvAvail = TRUE
    /\ now = 0
    /\ fast = None
    /\ kvBase = None
    /\ kvBody = None
    /\ kvChunk = [i \in ChunkIds |-> None]
    /\ kvPending = {}
    /\ cur = 0
    /\ req = Idle
    /\ task = [r \in ReqIds |-> NoTask]
    /\ putLog = {}
    /\ served = {}
    /\ r2 \in {[R2Idle(StorageConfig(m, d, e)) EXCEPT !.client = c] :
                  m \in 0..MaxRetries, d \in 1..MaxDelay, e \in BOOLEAN,
                  c \in {"r2Get", "adapter"}}
    /\ front = FrontIdle
    /\ pump = NoPump

NextRetry ==
    \/ CallGetObject
    \/ R2Enter
    \/ R2Try
    \/ R2Sleep
    \/ R2Return
    \/ AdapterEnter
    \/ AdapterTry

SpecRetry == InitRetry /\ [][NextRetry]_vars

\* ------------------------------------------------- the steps around getObject
InitFront ==
    /\ originSize = 1
    /\ kvAvail = TRUE
    /\ now = 0
    /\ fast = None
    /\ kvBase = None
    /\ kvBody = None
    /\ kvChunk = [i \in ChunkIds |-> None]
    /\ kvPending = {}
    /\ cur = 0
    /\ req = Idle
    /\ task = [r \in ReqIds |-> NoTask]
    /\ putLog = {}
    /\ served = {}
    /\ r2 = R2Idle(DefaultStorage)
    /\ front = FrontIdle
    /\ pump = NoPump

NextFront ==
    \/ BucketRouter
    \/ ServeObject
    \/ BuildHeaders

SpecFront == InitFront /\ [][NextFront]_vars

\* ------------------------------------------------- two writers of one key
\* The body of the object after it was replaced in the bucket: T bytes, none
\* of them a byte of Body.
Version(T) == [k \in 1..T |-> 0 - k]

\* The key holds the entry the first write stored, whole, no put in flight.
Stored == Returned(1) /\ task[1].fail = "" /\ kvPending = {} /\ kvBase # None

\* What a second call of kvCachePutStream on the key is given: a stream and
\* the total size declared for it, which the stream may miss by one byte
\* either way.
StreamInputs ==
    UNION {{<<Version(n), d>> : d \in {n - 1, n, n + 1} \cap 1..MaxSize} : n \in 0..MaxSize}

\* kvCachePutStream is called again on the key, while the first write is in
\* flight or after it.
CallPutStreamOver ==
    /\ cur = 0 /\ task[1].kind # "none" /\ task[2].kind = "none"
    /\ \E inp \in StreamInputs :
        task' = [task EXCEPT ![2] = [StartStream(inp[1], inp[2]) EXCEPT !.onto = Stored]]
    /\ UNCHANGED <<env, now, fast, kvStore, kvPending, cur, req, putLog, served>>

\* reader.read() rejects after k bytes of the stream: the chunks that filled
\* before are uploading, no final chunk and no manifest is put, and the catch
\* returns without waiting for the puts; the single path has put nothing.
StreamError(t) ==
    /\ task[t].kind = "kvStream" /\ task[t].pc = "read"
    /\ \E k \in 0..(Len(task[t].stream) - 1) : \E fs \in Frames(k) :
        kvPending' = kvPending \cup
            (IF task[t].totalSize > MAX_SINGLE_ENTRY
             THEN ReadLoop(t, NoAcc, task[t].stream, 0, fs).puts ELSE {})
    /\ task' = [task EXCEPT ![t].pc = "done", ![t].fail = "source"]
    /\ UNCHANGED <<env, now, fast, kvStore, cur, req, putLog, served>>

\* kvCacheMatch without a Range header, once every write that was called
\* has returned.
CallMatchFull ==
    /\ cur = 0
    /\ Returned(1)
    /\ task[2].kind = "none" \/ Returned(2)
    /\ req' = [Idle EXCEPT !.pc = "kvMeta", !.direct = TRUE]
    /\ cur' = 1
    /\ UNCHANGED <<env, now, fast, kvStore, kvPending, task, putLog, served>>

InitWrite ==
    /\ originSize \in 1..MaxSize
    /\ kvAvail = TRUE
    /\ now = 0
    /\ fast = None
    /\ kvBase = None
    /\ kvBody = None
    /\ kvChunk = [i \in ChunkIds |-> None]
    /\ kvPending = {}
    /\ cur = 0
    /\ req = Idle
    /\ task = [r \in ReqIds |-> NoTask]
    /\ putLog = {}
    /\ served = {}
    /\ r2 = R2Idle(DefaultStorage)
    /\ front = FrontIdle
    /\ pump = NoPump

NextWrite ==
    \/ CallPut
    \/ CallPutStream
    \/ CallPutStreamOver
    \/ \E t \in ReqIds : PutStream(t)
    \/ \E t \in ReqIds : StreamError(t)
    \/ KvPutApply
    \/ CallMatchFull
    \/ KvMeta
    \/ KvBody
    \/ KvChunk

SpecWrite == InitWrite /\ [][NextWrite]_vars

\* --------------------------------------------------- the pump on its own
InitPump ==
    /\ originSize \in 1..MaxSize
    /\ kvAvail \in BOOLEAN
    /\ now = 0
    /\ fast = None
    /\ kvBase = None
    /\ kvBody = None
    /\ kvChunk = [i \in ChunkIds |-> None]
    /\ kvPending = {}
    /\ cur = 0
    /\ req = Idle
    /\ task = [r \in ReqIds |-> NoTask]
    /\ putLog = {}
    /\ served = {}
    /\ r2 = R2Idle(DefaultStorage)
    /\ front = FrontIdle
    /\ pump = NoPump

NextPump ==
    \/ PumpStart
    \/ PumpRead
    \/ \E sink \in {"cache", "client"} : PumpWrite(sink)
    \/ \E sink \in {"cache", "client"} : PumpCloseSink(sink)

SpecPump == InitPump /\ [][NextPump]_vars

\* ------------------------------------------------------------ the service
Init ==
    /\ originSize \in 0..MaxSize
    /\ kvAvail \in BOOLEAN
    /\ now = 0
    /\ fast = None
    /\ kvBase = None
    /\ kvBody = None
    /\ kvChunk = [i \in ChunkIds |-> None]
    /\ kvPending = {}
    /\ cur = 0
    /\ req = Idle
    /\ task = [r \in ReqIds |-> NoTask]
    /\ putLog = {}
    /\ served = {}
    /\ r2 = R2Idle(DefaultStorage)
    /\ front = FrontIdle
    /\ pump = NoPump

\* A kv.put() that rejects leaves the store as one that never resolves does,
\* and nothing here waits for a put: the rejection is an action of
\* SpecDirect alone, where the return of the writer is observed.
\* The service writes slow-cache entries only for objects above
\* CACHE_API_SIZE_LIMIT, which MAX_SINGLE_ENTRY is below: every entry it reads
\* back is chunked, and the single-entry read belongs to SpecDirect alone.
Next ==
    \/ Start
    \/ FastProbe
    \/ KvMeta
    \/ KvChunk
    \/ OriginFetch
    \/ \E t \in ReqIds : PumpEnd(t)
    \/ \E t \in ReqIds : FullFetch(t)
    \/ \E t \in ReqIds : PutStream(t)
    \/ KvPutApply

Spec == Init /\ [][Next]_vars

\* ------------------------------------------------------------ properties
\* What the request being handled saw of each tier.
FastOutcomes == {"fast:hit", "fast:miss", "fast:err"}
SlowOutcomes == {"slow:hit", "slow:miss", "slow:err"}

\* C1: getObject probes the fast cache first, the slow cache only after the
\* fast cache did not hit, and the origin only after the slow cache (when
\* there is one) did not hit either; a hit on a tier ends the handler with that tier's
\* response, and no tier is probed twice.
C1_ProbeOrder ==
    (~req.direct /\ ~req.bypass) =>
        LET tr == req.trace
        IN /\ Len(tr) <= 3
           /\ Len(tr) >= 1 => tr[1] \in FastOutcomes
           /\ Len(tr) >= 2 => /\ tr[1] # "fast:hit"
                              /\ tr[2] \in (IF kvAvail THEN SlowOutcomes ELSE {"origin"})
           /\ Len(tr) >= 3 => tr[2] \in {"slow:miss", "slow:err"} /\ tr[3] = "origin"
           /\ (tr # <<>> /\ tr[Len(tr)] = "fast:hit") => req.pc = "done" /\ req.resp.src = "fast"
           /\ (tr # <<>> /\ tr[Len(tr)] = "slow:hit") =>
                  req.pc \in {"kvChunk", "done"} /\ req.resp.src = "kv"
           /\ req.pc = "done" => tr[Len(tr)] \in {"fast:hit", "slow:hit", "origin"}

\* A request went through all three tiers and was served by the origin.
C1_Witness ==
    /\ req.trace = <<"fast:miss", "slow:miss", "origin">>
    /\ req.pc = "done" /\ req.resp.status = 200

\* C2: a GET that reads the slow cache while a populate of the same key is
\* in flight gets a miss or the complete object: no 200 or 206 from the slow
\* cache ends with its body cut short, unless a read of the store threw.
C2_NoPartialRead ==
    (~req.direct /\ ~req.err /\ req.resp.src = "kv" /\ req.resp.status \in {200, 206}) =>
        req.resp.state # "aborted"

\* C3: whenever the manifest of a chunked entry is visible, every chunk it
\* lists is visible.
C3_ManifestAfterChunks ==
    (kvBase # None /\ Get(kvBase).isChunked) =>
        \A i \in 0..(Get(kvBase).chunkCount - 1) : kvChunk[i] # None

\* C4: every response handed to a cache write, and every entry stored in the
\* fast cache, is a 200 carrying the whole object, its full Content-Length
\* and no Content-Range; this holds for the populate after a Range miss too.
C4_OnlyFullBodies ==
    LET Full(resp) == /\ resp.status = 200
                      /\ resp.cr = None
                      /\ resp.cl = originSize /\ ~resp.clNaN
                      /\ resp.body = Body(originSize)
    IN /\ \A e \in putLog : Full(e.resp)
       /\ fast # None => Full(Get(fast))
       /\ \A p \in kvPending : p.key = "base" => p.base.contentLength = originSize
       /\ kvBase # None => Get(kvBase).contentLength = originSize

\* A Range miss was answered 206 and its background fetch stored the entry.
C4_Witness ==
    /\ req.resp.status = 206 /\ req.resp.src = "origin"
    /\ task[cur].kind = "full" /\ task[cur].pc = "done"
    /\ \E e \in putLog : e.tier = "fast"
    /\ fast # None

\* C5: a request with bypassCache reads no cache, writes no cache and
\* registers no background work, whatever its method and headers.
C5_BypassTouchesNothing ==
    (~req.direct /\ req.bypass /\ cur > 0) =>
        /\ req.ops = {}
        /\ \A i \in 1..Len(req.trace) : req.trace[i] = "origin"
        /\ task[cur] = NoTask
        /\ \A p \in kvPending : p.w # cur

\* A bypassing GET with a Range header was served by the origin.
C5_Witness ==
    /\ req.bypass /\ req.method = "GET" /\ req.hdr.present
    /\ req.pc = "done" /\ req.resp.status = 206

\* C6: once a plain GET has received a complete 200, a later plain GET that
\* a cache tier answers with 200 receives one of the bodies already received,
\* byte for byte, however its body stream ends, unless a read of the store
\* threw.
C6_RepeatableRead ==
    (~req.direct /\ ~req.err /\ Plain(req) /\ req.before # {} /\ req.pc = "done"
        /\ req.resp.status = 200 /\ req.resp.src \in {"fast", "kv"}) =>
        req.resp.body \in req.before

\* Whether every put of the direct write succeeded and the entry it stored
\* is still fresh.
Fresh == task[1].fail = "" /\ now - task[1].createdAt <= MaxAge

\* A direct kvCacheMatch under header h has returned and its body stream
\* has ended, no read of the store having thrown.
Matched(h) == req.direct /\ req.pc = "done" /\ req.hdr = h /\ ~req.err

\* C7: for every body of at most MAX_KV_CACHE_SIZE bytes, written by
\* kvCachePut or by kvCachePutStream under any framing, a match of the fresh
\* entry returns 200 with exactly the bytes written and their length, and
\* the sizes listed in a manifest add up to the length.
C7_RoundTrip ==
    /\ (Matched(NoRange) /\ Fresh /\ originSize <= MAX_KV_CACHE_SIZE) =>
           /\ req.resp.status = 200 /\ req.resp.state = "closed"
           /\ req.resp.body = Body(originSize)
           /\ req.resp.cl = originSize
    /\ \A p \in kvPending \cup (IF kvBase = None THEN {} ELSE {[base |-> Get(kvBase)]}) :
           p.base.isChunked =>
               /\ SumSeq(p.base.chunkSizes) = originSize
               /\ Len(p.base.chunkSizes) = p.base.chunkCount
               /\ p.base.totalSize = originSize

\* A body whose last chunk is short came back whole from a chunked entry.
C7_Witness ==
    /\ Matched(NoRange) /\ originSize = MAX_KV_CACHE_SIZE
    /\ kvBase # None /\ Get(kvBase).chunkSizes = <<CHUNK_SIZE, CHUNK_SIZE, 1>>
    /\ req.resp.status = 200 /\ req.resp.body = Body(originSize)

\* C8: a match of a fresh entry of size T under `bytes=a-b`, a <= b and
\* a < T, is a 206 whose body is bytes a..min(b, T-1) of what was written,
\* with Content-Range `bytes a-min(b, T-1)/T` and the matching
\* Content-Length, for single entries and chunked ones alike.
C8_RangeRead ==
    \A a \in 0..MaxNum, b \in 0..MaxNum :
        (Matched(FromTo(a, b)) /\ a <= b /\ a < originSize
            /\ Fresh /\ originSize <= MAX_KV_CACHE_SIZE) =>
            LET end == Min(b, originSize - 1)
            IN /\ req.resp.status = 206 /\ req.resp.state = "closed"
               /\ req.resp.body = SubSeq(Body(originSize), a + 1, end + 1)
               /\ req.resp.cr = Some(CR(FALSE, a, end, originSize))
               /\ req.resp.cl = end - a + 1 /\ ~req.resp.clNaN

\* A range from inside the first chunk to inside the third was served.
C8_Witness ==
    /\ Matched(FromTo(1, 2 * CHUNK_SIZE)) /\ originSize = MAX_KV_CACHE_SIZE
    /\ req.resp.status = 206
    /\ req.resp.body = SubSeq(Body(originSize), 2, 2 * CHUNK_SIZE + 1)
    /\ req.rd.i = 3

\* A suffix request for the last n bytes has been answered by kvCacheMatch
\* on a fresh entry or by the origin path.
SuffixAnswered(n) ==
    /\ req.pc = "done" /\ req.hdr = Suffix(n)
    /\ \/ req.direct /\ ~req.err /\ Fresh /\ originSize <= MAX_KV_CACHE_SIZE
       \/ ~req.direct /\ req.resp.status # 502

\* C9: `bytes=-N` with 0 < N <= T is answered, from the slow cache and from
\* the origin alike, by a 206 carrying the last N bytes, Content-Range
\* `bytes (T-N)-(T-1)/T` and Content-Length N.
C9_Suffix ==
    \A n \in 1..MaxNum :
        (SuffixAnswered(n) /\ n <= originSize) =>
            /\ req.resp.status = 206 /\ req.resp.state = "closed"
            /\ req.resp.body = SubSeq(Body(originSize), originSize - n + 1, originSize)
            /\ req.resp.cr = Some(CR(FALSE, originSize - n, originSize - 1, originSize))
            /\ req.resp.cl = n /\ ~req.resp.clNaN

\* A suffix that begins inside one chunk and ends in the next was served
\* from the slow cache.
C9_WitnessSlow ==
    /\ SuffixAnswered(CHUNK_SIZE + 1) /\ req.direct /\ originSize = 2 * CHUNK_SIZE
    /\ req.resp.status = 206 /\ Len(req.resp.body) = CHUNK_SIZE + 1

\* A suffix was served by the origin.
C9_WitnessOrigin ==
    /\ SuffixAnswered(2) /\ ~req.direct /\ originSize = 3
    /\ req.resp.status = 206 /\ req.resp.body = <<2, 3>>

\* Both paths of C9 are reached (in different behaviours).
C9_Witness == C9_WitnessSlow \/ C9_WitnessOrigin

\* C10: `bytes=-N` with N >= T is answered with the whole body and
\* Content-Range `bytes 0-(T-1)/T`.
C10_SuffixClamp ==
    \A n \in 1..MaxNum :
        (SuffixAnswered(n) /\ n >= originSize) =>
            /\ req.resp.status = 206 /\ req.resp.state = "closed"
            /\ req.resp.body = Body(originSize)
            /\ req.resp.cr = Some(CR(FALSE, 0, originSize - 1, originSize))

\* A Range header that is unparseable (the syntax does not match) or
\* unsatisfiable against an object of size total (start >= total, or
\* start > end).
BadHeader(h, total) ==
    /\ h.present
    /\ \/ ~h.m
       \/ h.hasS /\ (h.s >= total \/ (h.hasE /\ h.s > h.e))

\* C11: a request whose Range header is unparseable or unsatisfiable, once
\* answered by the slow cache or by the origin (an origin transport failure
\* aside), has a 200 with the whole body and no Content-Range.
C11_BadRangeIgnored ==
    (req.pc = "done" /\ BadHeader(req.hdr, originSize) /\ req.resp.status \notin {0, 502}) =>
        /\ req.resp.status = 200
        /\ req.resp.cr = None
        /\ req.resp.body = Body(originSize)

\* The request being handled was answered by the origin path.
FromOrigin == ~req.direct /\ req.pc = "done" /\ req.resp.src = "origin"

\* The cache writes a handler can issue or register.
WriteOps == {"fastPut", "kvWrite", "populate"}

\* C12: on the origin path an absent object is answered 404 with the text
\* `Not Found`, a fetch that threw 502 with the text `Origin Error`, and a
\* failed precondition 304 with an empty body and the origin's ETag; no other
\* status answers these outcomes, and none of the three issues a cache write
\* or registers background work.
C12_OriginOutcomes ==
    FromOrigin =>
        /\ req.resp.status \in {200, 206, 304, 404, 502}
        /\ originSize = 0 => req.resp.status \in {404, 502}
        /\ (originSize > 0 /\ req.cond) => req.resp.status \in {304, 502}
        /\ req.resp.status = 404 =>
               originSize = 0 /\ req.resp.text = "Not Found" /\ req.resp.body = <<>>
        /\ req.resp.status = 502 => req.resp.text = "Origin Error" /\ req.resp.body = <<>>
        /\ req.resp.status = 304 =>
               /\ originSize > 0 /\ req.cond
               /\ req.resp.body = <<>> /\ req.resp.text = "" /\ req.resp.etag = ETag
        /\ req.resp.status \in {304, 404, 502} =>
               /\ req.ops \cap WriteOps = {}
               /\ task[cur] = NoTask
               /\ \A p \in kvPending : p.w # cur

\* A conditional GET missed both tiers and the origin answered 304.
C12_Witness ==
    /\ FromOrigin /\ req.resp.status = 304
    /\ req.trace = <<"fast:miss", "slow:miss", "origin">>

\* C13: a GET whose If-None-Match equals the ETag of the cached entry, once
\* a cache tier answers it, has a 304 with that ETag and an empty body.
C13_ConditionalHit ==
    (~req.direct /\ req.method = "GET" /\ req.cond
        /\ req.resp.status # 0 /\ req.resp.src \in {"fast", "kv"}) =>
        /\ req.resp.status = 304
        /\ req.resp.etag = ETag
        /\ req.resp.body = <<>>

\* C14: a failing cache write leaves the client's response alone: when the
\* sink cache.put() consumes fails, the client sink of the pump is still
\* closed over the whole body; and a response whose body is teed into
\* kvCachePutStream is a complete 200 whatever becomes of the puts.
C14_ClientUnaffected ==
    /\ \A t \in ReqIds :
           (task[t].kind = "pump" /\ task[t].fail = "cacheSink") => task[t].client = "closed"
    /\ (~req.direct /\ "kvWrite" \in req.ops) =>
           /\ req.resp.status = 200 /\ req.resp.state = "closed"
           /\ req.resp.body = Body(originSize)

C16_NoPartialFastEntry ==
    /\ \A t \in ReqIds :
           (task[t].kind = "pump" /\ task[t].pc = "aborted") =>
               task[t].client = "aborted" /\ task[t].cache = "aborted"
    /\ IsSome(fast) =>
           /\ Get(fast).body = Body(originSize)
           /\ Get(fast).cl = originSize

\* The client went away after some but not all bytes were pumped, and the
\* fast cache is empty.
C16_Witness ==
    /\ \E t \in ReqIds :
           /\ task[t].kind = "pump" /\ task[t].pc = "aborted"
           /\ task[t].fail = "clientSink"
           /\ Len(task[t].stream) \in 1..(task[t].totalSize - 1)
    /\ fast = None

\* C17: every populate hands the object to one tier, the slow cache iff
\* the object is over FAST_CACHE_CAP and there is a slow cache, else the
\* fast cache: every cache write logged is to that tier, a full GET served
\* from the origin issued exactly one of the two writes, and no store of the
\* other tier ever holds or awaits anything.
C17_OneTier ==
    LET slow == kvAvail /\ originSize > CACHE_API_SIZE_LIMIT
    IN /\ \A p \in putLog : (p.tier = "kv") <=> slow
       /\ \A p \in putLog : p.tier \in {"kv", "fast"}
       /\ (~req.direct /\ req.pc = "done" /\ req.resp.src = "origin"
              /\ req.resp.status = 200 /\ Cacheable(req)) =>
              /\ ("kvWrite" \in req.ops) <=> slow
              /\ ("fastPut" \in req.ops) <=> ~slow
       /\ slow => fast = None
       /\ ~slow => kvBase = None /\ kvPending = {}
                      /\ \A t \in ReqIds : task[t].kind # "kvStream"

\* The background populate after a Range miss handed the whole object to
\* the slow cache, and the fast cache holds nothing.
C17_Witness ==
    /\ cur \in ReqIds /\ "populate" \in req.ops
    /\ task[cur].kind = "kvStream"
    /\ \E p \in putLog : p.tier = "kv"
    /\ fast = None

\* The manifest m of a chunked entry is well formed.
WellFormed(m) ==
    /\ m.chunkCount = Len(m.chunkSizes)
    /\ SumSeq(m.chunkSizes) = m.contentLength
    /\ m.chunkCount >= 1
    /\ \A i \in 1..(Len(m.chunkSizes) - 1) : m.chunkSizes[i] = CHUNK_SIZE
    /\ m.chunkSizes[Len(m.chunkSizes)] \in 1..CHUNK_SIZE

\* C18: in every manifest kvCachePut or kvCachePutStream writes, issued or
\* stored, the chunk sizes add up to the content length, every chunk but
\* the last has CHUNK_SIZE bytes, the last has between 1 and CHUNK_SIZE, and
\* chunkCount is the number of sizes; the chunks written have those sizes.
C18_ManifestShape ==
    /\ \A p \in kvPending : (p.key = "base" /\ p.base.isChunked) => WellFormed(p.base)
    /\ (IsSome(kvBase) /\ Get(kvBase).isChunked) =>
           /\ WellFormed(Get(kvBase))
           /\ \A i \in ChunkIds :
                  (i < Get(kvBase).chunkCount /\ IsSome(kvChunk[i])) =>
                      Len(Get(kvChunk[i])) = Get(kvBase).chunkSizes[i + 1]

\* The streaming writer stored an entry of two full chunks and a short one.
C18_Witness ==
    /\ task[1].kind = "kvStream"
    /\ IsSome(kvBase) /\ Get(kvBase).isChunked
    /\ Get(kvBase).chunkSizes = <<CHUNK_SIZE, CHUNK_SIZE, 1>>
    /\ \A i \in 0..2 : IsSome(kvChunk[i])

\* Whether the response being read under rd needs chunk i of its entry.
Needs(rd, i) ==
    LET chunkOffset == SumSeq(SubSeq(rd.base.chunkSizes, 1, i))
        chunkEnd == chunkOffset + rd.base.chunkSizes[i + 1] - 1
    IN /\ i < rd.base.chunkCount
       /\ ~rd.ranged \/ (~rd.range.nan /\ chunkEnd >= rd.range.start
                                       /\ chunkOffset <= rd.range.end)

\* C19: kvCacheMatch never returns a hit for an entry with a missing key:
\* once every put has resolved or failed (so that nothing is on its way to
\* the store), a response returned by a direct call has its base record,
\* and its _body or every chunk the response needs, in the store.
C19_MissingIsMiss ==
    (req.direct /\ req.resp.status \in {200, 206} /\ kvPending = {}) =>
        /\ IsSome(kvBase)
        /\ ~req.rd.base.isChunked => IsSome(kvBody)
        /\ req.rd.base.isChunked =>
               \A i \in ChunkIds : Needs(req.rd, i) => IsSome(kvChunk[i])

C21_AbsentNotRetried ==
    r2.nulls >= 1 =>
        /\ r2.pc = "returned"
        /\ r2.nulls = 1
        /\ r2.calls = r2.fails + 1
        /\ Len(r2.delays) = r2.fails

\* C22: serveObject sets the bypass flag whenever the bypass parameter
\* (no-cache unless the config names another) is in the query, whatever its
\* value, and whenever the config disables caching.
C22_BypassFlag ==
    front.op = "serveObject" =>
        LET cfg == front.in.cacheConfig
            name == IF IsSome(cfg.bypassParamName) THEN Get(cfg.bypassParamName)
                    ELSE "no-cache"
        IN (cfg.cacheEnabled = Some(FALSE) \/ front.in.query[name] # None)
               => front.out.bypassCache

\* C23: the header builder sets Cache-Control to 'no-store, max-age=0' iff
\* the bypass flag is set; otherwise to 'public, max-age=M,
\* stale-while-revalidate=S' with M the max-age of the object type's entry
\* when it has one and the default otherwise, and S the default; never what
\* the origin recorded.
C23_CacheControl ==
    front.op = "buildResponseHeaders" =>
        LET cfg == front.in.cacheConfig
            extra == front.in.extra
            override == IF IsSome(extra.objectType) /\ IsSome(cfg.otConfig)
                        THEN Get(cfg.otConfig).maxAge ELSE None
            M == IF IsSome(override) THEN Get(override) ELSE cfg.defaultMaxAge
        IN /\ (front.out.cacheControl = Some(NoStore)) <=> extra.bypass
           /\ ~extra.bypass =>
                  front.out.cacheControl =
                      Some([kind |-> "public", maxAge |-> M,
                            swr |-> cfg.defaultStaleWhileRevalidate])

\* The origin recorded a Cache-Control, the type's entry sets max-age 0, and
\* the header says public, max-age=0.
C23_Witness ==
    /\ front.op = "buildResponseHeaders"
    /\ front.in.extra.r2CacheControl /\ ~front.in.extra.bypass
    /\ front.in.extra.objectType = Some("image")
    /\ IsSome(front.in.cacheConfig.otConfig)
    /\ Get(front.in.cacheConfig.otConfig).maxAge = Some(0)
    /\ Get(front.out.cacheControl).kind = "public"
    /\ Get(front.out.cacheControl).maxAge = 0

\* C24: Cache-Tag is set only when tags are enabled, at least one tag
\* exists and the response is not a bypass response; with tags disabled
\* there is no Cache-Tag, whatever custom tags the request supplies.
C24_CacheTag ==
    front.op = "buildResponseHeaders" =>
        /\ IsSome(front.out.cacheTag) =>
               /\ front.in.cacheConfig.enabled
               /\ ~front.in.extra.bypass
               /\ Len(Get(front.out.cacheTag)) >= 1
        /\ ~front.in.cacheConfig.enabled => front.out.cacheTag = None

\* The route r matches the host and the path as the routing rules say:
\* '*' any host, '*.suffix' any host that ends in '.suffix' and is longer,
\* else the same host; and the path prefix begins the path.
RouteMatches(r, hostname, pathname) ==
    /\ \/ r.host = <<"*">>
       \/ /\ Len(r.host) >= 2 /\ r.host[1] = "*" /\ r.host[2] = "."
          /\ Len(hostname) > Len(r.host) - 1
          /\ \A k \in 1..(Len(r.host) - 1) :
                 hostname[Len(hostname) - (Len(r.host) - 1) + k] = r.host[k + 1]
       \/ r.host[1] # "*" /\ r.host = hostname
    /\ Len(r.pathPrefix) <= Len(pathname)
    /\ \A k \in 1..Len(r.pathPrefix) : pathname[k] = r.pathPrefix[k]

\* C25: the router takes the bucket of the first route, in the order of the
\* config, that matches the host and the path; the default bucket (R2 when
\* none is configured) when no route matches; and answers 500 exactly when
\* the bucket it took has no binding.
C25_FirstMatchingRoute ==
    front.op = "bucketRouter" =>
        LET routes == front.in.routing.routes
            ok(i) == RouteMatches(routes[i], front.in.hostname, front.in.pathname)
            default == IF IsSome(front.in.routing.defaultBucket)
                       THEN Get(front.in.routing.defaultBucket) ELSE "R2"
        IN /\ \A i \in 1..Len(routes) :
                  (ok(i) /\ \A j \in 1..(i - 1) : ~ok(j)) =>
                      front.out.bucketName = routes[i].bucket
           /\ (\A i \in 1..Len(routes) : ~ok(i)) => front.out.bucketName = default
           /\ (front.out.status = 500) <=> (front.out.bucketName \notin front.in.bindings)
           /\ front.out.status \in {0, 500}

\* The first route does not match a host that is just its suffix, the
\* second route does, and its bucket is taken.
C25_Witness ==
    /\ front.op = "bucketRouter"
    /\ Len(front.in.routing.routes) = 2
    /\ front.in.routing.routes[1].host = <<"*", ".", "a">>
    /\ front.in.routing.routes[1].pathPrefix = <<"/">>
    /\ front.in.hostname = <<".", "a">>
    /\ front.out.bucketName = "B" /\ front.out.status = 0

\* C26: a HEAD request that missed both caches is answered by the origin
\* path without caching: the handler issued no fast-cache put and no
\* slow-cache write, registered no background work, and no put to the
\* store is its own; when it was the first request, every cache is empty.
C26_HeadNotCached ==
    (FromOrigin /\ req.method = "HEAD" /\ ~req.bypass) =>
        /\ req.ops \cap WriteOps = {}
        /\ task[cur] = NoTask
        /\ \A p \in kvPending : p.w # cur
        /\ cur = 1 => /\ putLog = {} /\ fast = None /\ kvPending = {}
                      /\ kvBase = None /\ kvBody = None
                      /\ \A i \in ChunkIds : kvChunk[i] = None

\* A HEAD request missed the fast cache and the slow cache and the origin
\* answered 200.
C26_Witness ==
    /\ req.method = "HEAD" /\ ~req.bypass /\ ~req.hdr.present
    /\ req.trace = <<"fast:miss", "slow:miss", "origin">>
    /\ req.pc = "done" /\ req.resp.status = 200
    /\ fast = None

\* The request being handled is a GET with a Range header and no bypass.
RangeGet == ~req.direct /\ ~req.bypass /\ req.method = "GET" /\ req.hdr.present

C28_NoCacheHeaderBypasses ==
    (~req.direct /\ req.noCache /\ req.pc = "done") => req.resp.src = "origin"

\* C29: the slow cache never answers 304: a response of kvCacheMatch is a
\* 200, or a 206 when the request has a Range header, built from the stored
\* bytes, whatever validator the request carries.
C29_SlowNever304 ==
    req.resp.src = "kv" =>
        /\ req.resp.status \in {200, 206}
        /\ req.resp.status = 206 => req.hdr.present
        /\ ~req.hdr.present => req.resp.status = 200
        /\ \A k \in 1..Len(req.resp.body) : req.resp.body[k] \in 1..originSize

\* A GET whose If-None-Match equals the stored ETag was answered 200, whole
\* body, by the slow cache.
C29_Witness ==
    /\ ~req.direct /\ req.cond /\ req.pc = "done"
    /\ req.resp.src = "kv" /\ req.resp.status = 200
    /\ req.resp.body = Body(originSize)

\* C30: whatever the Range header and the total size T of the entry, what
\* parseRange returned to kvCacheMatch is null or a pair of integers with
\* 0 <= start <= end < T.
C30_ParseRangeBounds ==
    (req.direct /\ req.rd.ranged) =>
        LET r == req.rd.range
            T == req.rd.base.totalSize
        IN r.ok => /\ ~r.nan
                   /\ 0 <= r.start /\ r.start <= r.end /\ r.end < T

\* C31: every 206 of the origin path, whatever range descriptor the bucket
\* returned with the object of size T, carries Content-Range `bytes s-e/T`
\* with 0 <= s <= e < T and Content-Length e - s + 1.
C31_OriginRangeHeaders ==
    (FromOrigin /\ req.resp.status = 206) =>
        /\ req.resp.cr # None
        /\ LET cr == Get(req.resp.cr)
           IN /\ ~cr.nan /\ cr.total = originSize
              /\ 0 <= cr.start /\ cr.start <= cr.end /\ cr.end < originSize
              /\ ~req.resp.clNaN /\ req.resp.cl = cr.end - cr.start + 1

\* C32: kvCacheMatch never returns a hit for an entry older than its
\* maxAge: when it runs while now - createdAt > maxAge, the keys still being
\* there, it returns null (getObject goes on to the origin).
C32_ExpiredIsMiss ==
    [][(/\ req.pc = "kvMeta" /\ req' # req
        /\ kvBase # None /\ now - Get(kvBase).createdAt > Get(kvBase).maxAge) =>
           /\ req'.resp = NoResp
           /\ req'.pc = IF req.direct THEN "done" ELSE "origin"]_vars

\* A complete chunked entry, every key present, was matched after its maxAge
\* had passed, and the match returned null.
C32_Witness ==
    /\ req.direct /\ req.pc = "done" /\ ~req.err /\ req.hdr = NoRange
    /\ req.resp = NoResp
    /\ task[1].fail = "" /\ kvPending = {}
    /\ kvBase # None /\ Get(kvBase).isChunked
    /\ \A i \in 0..(Get(kvBase).chunkCount - 1) : kvChunk[i] # None
    /\ now - Get(kvBase).createdAt > Get(kvBase).maxAge

\* C33: two kvCachePutStream calls on one key, each given a whole stream of
\* the size declared, their puts resolving in any order: once both have
\* returned, a body kvCacheMatch delivers is the body one of them wrote.
C33_ConcurrentWriters ==
    (/\ req.direct /\ req.pc = "done" /\ ~req.err
     /\ \A t \in {1, 2} : /\ task[t].kind = "kvStream" /\ task[t].fail = ""
                          /\ Len(task[t].stream) = task[t].totalSize
     /\ req.resp.status = 200) =>
        /\ req.resp.state = "closed"
        /\ req.resp.body \in {task[1].stream, task[2].stream}

\* C34: the pump hands both sinks the frames of the origin stream in the
\* order read: each sink holds the frames read, the one being written
\* possibly not yet; the next frame is read, and the sinks are closed, only
\* when both hold every frame read; a sink is closed only after the stream
\* ended.
C34_PumpOrder ==
    LET read == SubSeq(pump.frames, 1, pump.k)
        held(sink) == sink = read \/ (pump.k > 0 /\ sink = SubSeq(read, 1, pump.k - 1))
    IN /\ held(pump.client) /\ held(pump.cache)
       /\ pump.pc \in {"read", "close", "closed"} => (pump.client = read /\ pump.cache = read)
       /\ ("closed" \in {pump.clientState, pump.cacheState}) =>
              /\ pump.k = Len(pump.frames)
              /\ pump.client = pump.frames /\ pump.cache = pump.frames

\* A body that arrived in three frames went to both sinks and both were
\* closed.
C34_Witness ==
    /\ pump.pc = "closed" /\ Len(pump.frames) = 3
    /\ pump.client = pump.frames /\ pump.cache = pump.frames
    /\ pump.clientState = "closed" /\ pump.cacheState = "closed"

\* C35: a slow-cache write of more than MAX_KV_CACHE_SIZE is a no-op: the
\* call of kvCachePut with such a body, or of kvCachePutStream with such a
\* declared size, leaves the puts in flight and every key as they were, and
\* the write issues no put afterwards and never reads its stream.
C35_OversizeNoop ==
    /\ [][\A t \in ReqIds :
            (/\ task[t].kind = "none" /\ task'[t].kind \in {"kvPut", "kvStream"}
             /\ task'[t].totalSize > MAX_KV_CACHE_SIZE) =>
                /\ kvPending' = kvPending
                /\ kvBase' = kvBase /\ kvBody' = kvBody /\ kvChunk' = kvChunk]_vars
    /\ [](\A t \in ReqIds :
            (task[t].kind \in {"kvPut", "kvStream"} /\ task[t].totalSize > MAX_KV_CACHE_SIZE) =>
                /\ \A p \in kvPending : p.w # t
                /\ task[t].kind = "kvStream" => task[t].pc = "done")

\* kvCachePutStream was called with a size over the limit on a key that held
\* a whole entry, and the entry is still there.
C35_Witness ==
    /\ task[2].kind = "kvStream" /\ task[2].totalSize > MAX_KV_CACHE_SIZE
    /\ task[2].onto /\ Len(task[2].stream) > 0
    /\ Stored

\* C36: kvCachePutStream, given a stream of the declared size (at most
\* MAX_KV_CACHE_SIZE) in frames of any sizes, issues the puts kvCachePut
\* issues for the same bytes: the same keys, the same chunk or body values,
\* the same manifest and metadata (createdAt being that of the call).
C36_StreamAsBuffered ==
    [][\A t \in ReqIds :
          (/\ task[t].kind = "kvStream" /\ task[t].pc = "read" /\ task'[t].pc = "await"
           /\ Len(task[t].stream) = task[t].totalSize) =>
              kvPending' \ kvPending =
                  kvCachePutPuts(t, task[t].stream, task[t].createdAt)]_vars

\* A stream of three chunks, the last one short, was written and its puts,
\* those of kvCachePut, are all in flight.
C36_Witness ==
    \E t \in ReqIds :
        /\ task[t].kind = "kvStream" /\ task[t].pc = "await"
        /\ Len(task[t].stream) = 2 * CHUNK_SIZE + 1 /\ task[t].totalSize = 2 * CHUNK_SIZE + 1
        /\ kvCachePutPuts(t, task[t].stream, task[t].createdAt) \subseteq kvPending

\* C37: when a stream written by kvCachePutStream fails part-way on a key
\* that held a complete chunked entry, a later kvCacheMatch (no Range) is a
\* miss or returns the previous body in full, never a mix of the two bodies.
C37_FailedWriteKeepsOld ==
    (/\ task[2].kind = "kvStream" /\ task[2].onto /\ task[2].fail = "source"
     /\ Len(task[1].stream) > MAX_SINGLE_ENTRY
     /\ req.direct /\ req.pc = "done" /\ ~req.err) =>
        \/ req.resp = NoResp
        \/ /\ req.resp.status = 200 /\ req.resp.state = "closed"
           /\ req.resp.body = task[1].stream

\* C38: what kvCachePutStream writes at the base key records the size it
\* stored: metadata.contentLength is the number of bytes read from the
\* stream, and for a chunked entry so are manifest.totalSize and the sum of
\* manifest.chunkSizes, whatever size was declared.
C38_RecordedSizeIsStoredSize ==
    \A p \in kvPending :
        (p.key = "base" /\ task[p.w].kind = "kvStream") =>
            /\ p.base.contentLength = Len(task[p.w].stream)
            /\ ~p.base.single =>
                  /\ p.base.totalSize = Len(task[p.w].stream)
                  /\ SumSeq(p.base.chunkSizes) = Len(task[p.w].stream)

\* C39: a request served through r2Get is answered 404 only when a
\* bucket.get() resolved to no object; whatever maxRetries is, at least one
\* bucket.get() was made before the answer; and when every call failed the
\* answer is 502, never 404.
C39_AbsentOnlyFromOrigin ==
    (r2.client = "r2Get" /\ req.pc = "done") =>
        /\ r2.calls >= 1
        /\ req.resp.status = 404 => r2.nulls >= 1
        /\ r2.fails = r2.calls => req.resp.status = 502

\* C40: the origin path (parseRangeHeader, then buildContentRange and
\* rangeLength on what the bucket returned) and parseRange agree on every
\* Range header and object size: a request the origin answered with the
\* object is a 206 exactly when parseRange accepts its header against the
\* object's size, and then Content-Range and Content-Length are those of the
\* interval parseRange returns.
C40_ParsersAgree ==
    (FromOrigin /\ req.resp.status \in {200, 206}) =>
        LET r == parseRange(req.hdr, originSize)
            served206 == req.hdr.present /\ r.ok
        IN /\ (req.resp.status = 206) <=> served206
           /\ served206 =>
                 /\ req.resp.cr = Some(CR(r.nan, r.start, r.end, originSize))
                 /\ ~req.resp.clNaN /\ req.resp.cl = r.end - r.start + 1

====
